---- MODULE Spec2Model ----
(***************************************************************************)
(* Sanctions screening core: name normalizer, match scorer, screening      *)
(* matcher and batch engine (backend/app/engine), with the screening       *)
(* routes that call them.                                                  *)
(*                                                                         *)
(* Names are sequences of one-character strings.  Scores are exact         *)
(* rationals written as integers over the common denominator D.            *)
(***************************************************************************)
EXTENDS Integers, Sequences, FiniteSets, TLC

(***************************************************************************)
(* Characters                                                              *)
(***************************************************************************)
\* the lowercase ASCII letters, in ASCII order
LowerLetters == <<"a","b","c","d","e","f","g","h","i","j","k","l","m",
                  "n","o","p","q","r","s","t","u","v","w","x","y","z">>
\* the uppercase ASCII letters, in ASCII order
UpperLetters == <<"A","B","C","D","E","F","G","H","I","J","K","L","M",
                  "N","O","P","Q","R","S","T","U","V","W","X","Y","Z">>
Digits == <<"0","1","2","3","4","5","6","7","8","9">>

\* characters matched by \s
IsSpace(c) == c \in {" ", "\t"}

\* position of a character in a sequence of characters (0 when absent)
IndexOf(c, seq) == IF \E i \in 1..Len(seq) : seq[i] = c
                   THEN CHOOSE i \in 1..Len(seq) : seq[i] = c
                   ELSE 0

\* characters matched by \w once the text is ASCII
IsWord(c) == \/ IndexOf(c, LowerLetters) > 0
             \/ IndexOf(c, UpperLetters) > 0
             \/ IndexOf(c, Digits) > 0
             \/ c = "_"

\* ASCII code order of the characters of a name or a list code
Ord(c) == IF c = " " THEN 0
          ELSE IF c = "-" THEN 1
          ELSE IF IndexOf(c, Digits) > 0 THEN 1 + IndexOf(c, Digits)
          ELSE IF IndexOf(c, UpperLetters) > 0 THEN 11 + IndexOf(c, UpperLetters)
          ELSE IF c = "_" THEN 38
          ELSE 38 + IndexOf(c, LowerLetters)

\* unidecode(): ASCII characters map to themselves, the others to their
\* ASCII approximation ("U+00E9" is e-acute, "U+00DF" sharp s, "U+2019" a
\* right single quotation mark, "U+00C5" A-ring)
UnidecodeChar(c) ==
    CASE c = "U+00E9" -> <<"e">>
      [] c = "U+00DF" -> <<"s","s">>
      [] c = "U+2019" -> <<"'">>
      [] c = "U+00C5" -> <<"A">>
      [] OTHER -> <<c>>

RECURSIVE Unidecode(_)
Unidecode(s) == IF s = <<>> THEN <<>>
                ELSE UnidecodeChar(Head(s)) \o Unidecode(Tail(s))

\* str.lower() on ASCII text
LowerChar(c) == IF IndexOf(c, UpperLetters) > 0
                THEN LowerLetters[IndexOf(c, UpperLetters)]
                ELSE c
Lower(s) == [i \in 1..Len(s) |-> LowerChar(s[i])]

(***************************************************************************)
(* String helpers: str.split(), ' '.join(), str.strip(), re.sub            *)
(***************************************************************************)
\* re.sub(r'[^\w\s\-]', '', s)
IsKept(c) == IsWord(c) \/ IsSpace(c) \/ c = "-"
RemoveSpecial(s) == SelectSeq(s, IsKept)

\* re.sub(r'\s+', ' ', s)
RECURSIVE CollapseWs(_)
CollapseWs(s) ==
    IF s = <<>> THEN <<>>
    ELSE IF IsSpace(Head(s))
         THEN IF Len(s) > 1 /\ IsSpace(s[2])
              THEN CollapseWs(Tail(s))
              ELSE <<" ">> \o CollapseWs(Tail(s))
         ELSE <<Head(s)>> \o CollapseWs(Tail(s))

\* str.strip()
RECURSIVE LStrip(_)
LStrip(s) == IF s # <<>> /\ IsSpace(Head(s)) THEN LStrip(Tail(s)) ELSE s
RECURSIVE RStrip(_)
RStrip(s) == IF s # <<>> /\ IsSpace(s[Len(s)])
             THEN RStrip(SubSeq(s, 1, Len(s) - 1)) ELSE s
Strip(s) == RStrip(LStrip(s))

\* str.replace('-', ' ')
ReplaceHyphen(s) == [i \in 1..Len(s) |-> IF s[i] = "-" THEN " " ELSE s[i]]

\* str.split(): the maximal runs of non-whitespace characters, in order
RECURSIVE SplitFrom(_, _)
SplitFrom(s, cur) ==
    IF s = <<>> THEN (IF cur = <<>> THEN <<>> ELSE <<cur>>)
    ELSE IF IsSpace(Head(s))
         THEN (IF cur = <<>> THEN <<>> ELSE <<cur>>) \o SplitFrom(Tail(s), <<>>)
         ELSE SplitFrom(Tail(s), Append(cur, Head(s)))
Split(s) == SplitFrom(s, <<>>)

\* ' '.join(words)
RECURSIVE Join(_)
Join(words) == IF words = <<>> THEN <<>>
               ELSE IF Len(words) = 1 THEN words[1]
               ELSE words[1] \o <<" ">> \o Join(Tail(words))

\* ''.join(words)
RECURSIVE Concat(_)
Concat(words) == IF words = <<>> THEN <<>>
                 ELSE words[1] \o Concat(Tail(words))

(***************************************************************************)
(* NameNormalizer                                                          *)
(***************************************************************************)
PREFIXES == { <<"a","l">>, <<"e","l">>, <<"u","l">>, <<"b","i","n">>,
              <<"i","b","n">>, <<"b","i","n","t">>, <<"a","b","u">>,
              <<"u","m","m">>, <<"t","h","e">>, <<"a">>, <<"a","n">> }

\* ARABIC_VARIATIONS, in declaration order: <<standard, <<variations>>>>
ARABIC_VARIATIONS == <<
  << <<"m","o","h","a","m","m","e","d">>,
     << <<"m","o","h","a","m","m","a","d">>, <<"m","u","h","a","m","m","e","d">>,
        <<"m","u","h","a","m","m","a","d">>, <<"m","o","h","a","m","e","d">>,
        <<"m","o","h","a","m","a","d">> >> >>,
  << <<"a","h","m","e","d">>,
     << <<"a","h","m","a","d">>, <<"a","h","m","e","t">> >> >>,
  << <<"a","b","d","u","l">>,
     << <<"a","b","d">>, <<"a","b","d","e","l">>, <<"a","b","d","a","l">> >> >>,
  << <<"a","l","i">>, << <<"a","l","y">> >> >>,
  << <<"h","a","s","s","a","n">>, << <<"h","a","s","a","n">> >> >>,
  << <<"h","u","s","s","e","i","n">>,
     << <<"h","u","s","s","a","i","n">>, <<"h","u","s","a","i","n">>,
        <<"h","o","s","s","e","i","n">> >> >>,
  << <<"k","h","a","l","i","d">>, << <<"k","h","a","l","e","d">> >> >>,
  << <<"o","m","a","r">>, << <<"u","m","a","r">> >> >>,
  << <<"o","s","m","a","n">>,
     << <<"u","t","h","m","a","n">>, <<"o","t","h","m","a","n">> >> >>,
  << <<"s","a","l","e","h">>,
     << <<"s","a","l","i","h">>, <<"s","a","l","a","h">> >> >>,
  << <<"y","o","u","s","e","f">>,
     << <<"y","u","s","u","f">>, <<"y","o","u","s","s","e","f">>,
        <<"j","o","s","e","p","h">> >> >>,
  << <<"i","b","r","a","h","i","m">>,
     << <<"e","b","r","a","h","i","m">>, <<"a","b","r","a","h","a","m">> >> >>
>>

SeqRange(seq) == {seq[i] : i \in 1..Len(seq)}

\* the keys of _VARIATION_MAP
InVariationMap(word) ==
    \E k \in 1..Len(ARABIC_VARIATIONS) :
        \/ ARABIC_VARIATIONS[k][1] = word
        \/ word \in SeqRange(ARABIC_VARIATIONS[k][2])

\* _VARIATION_MAP[word]
VARIATION_MAP(word) ==
    LET k == CHOOSE k \in 1..Len(ARABIC_VARIATIONS) :
                 \/ ARABIC_VARIATIONS[k][1] = word
                 \/ word \in SeqRange(ARABIC_VARIATIONS[k][2])
    IN  ARABIC_VARIATIONS[k][1]

\* NameNormalizer.normalize(name, keep_prefixes)
DropPrefix(words) == IF words # <<>> /\ words[1] \in PREFIXES
                     THEN Tail(words) ELSE words

\* the prefix step: words = split(); the first word goes when it is a prefix
RemovePrefix(spaced, keep_prefixes) ==
    IF keep_prefixes THEN spaced ELSE Join(DropPrefix(Split(spaced)))

\* unidecode, lower, the special characters removed, whitespace collapsed
\* and stripped, hyphens made spaces, the prefix step, whitespace again
normalize(name, keep_prefixes) ==
    IF name = <<>> THEN <<>>
    ELSE Strip(CollapseWs(RemovePrefix(
             ReplaceHyphen(Strip(CollapseWs(RemoveSpecial(Lower(Unidecode(name)))))),
             keep_prefixes)))

\* NameNormalizer.normalize_for_matching(name)
Standardize(word) == IF InVariationMap(word) THEN VARIATION_MAP(word) ELSE word

StandardizeAll(words) == [i \in 1..Len(words) |-> Standardize(words[i])]

normalize_for_matching(name) == Concat(StandardizeAll(Split(normalize(name, FALSE))))

(***************************************************************************)
(* Scores: a float in [0,1] is the exact rational n/D, written n           *)
(***************************************************************************)
\* the common denominator of every score the names of the model produce
D == 36036000

Min2(a, b) == IF a <= b THEN a ELSE b
Max2(a, b) == IF a >= b THEN a ELSE b
SetMin(S) == CHOOSE x \in S : \A y \in S : x <= y
SetMax(S) == CHOOSE x \in S : \A y \in S : x >= y

\* the characters of s at the flagged positions, in order
FlaggedChars(s, flags) ==
    LET idx == SelectSeq([i \in 1..Len(s) |-> i], LAMBDA i : i \in flags)
    IN  [k \in 1..Len(idx) |-> s[idx[k]]]

(***************************************************************************)
(* rapidfuzz.distance.Jaro / JaroWinkler                                   *)
(***************************************************************************)
\* the matching pass: each character of s1, in order, takes the first
\* unflagged equal character of s2 within the search range
RECURSIVE JaroFlags(_, _, _, _, _, _)
JaroFlags(s1, s2, bound, i, f1, f2) ==
    IF i > Len(s1) THEN <<f1, f2>>
    ELSE LET low   == Max2(1, i - bound)
             hi    == Min2(i + bound, Len(s2))
             cands == {j \in low..hi : j \notin f2 /\ s2[j] = s1[i]}
         IN  IF cands = {} THEN JaroFlags(s1, s2, bound, i + 1, f1, f2)
             ELSE JaroFlags(s1, s2, bound, i + 1,
                            f1 \cup {i}, f2 \cup {SetMin(cands)})

\* the similarity from the lengths, the number of matched characters and
\* the number of transpositions
JaroFormula(len1, len2, common, trans) ==
    IF common = 0 THEN 0
    ELSE ( (D \div len1) * common
         + (D \div len2) * common
         + (D \div common) * (common - trans) ) \div 3

\* the matched characters of the two strings, compared position by position
JaroOfMatched(s1, s2, m1, m2) ==
    JaroFormula(Len(s1), Len(s2), Len(m1),
                Cardinality({k \in 1..Len(m1) : m1[k] # m2[k]}) \div 2)

JaroOfFlags(s1, s2, flags) ==
    JaroOfMatched(s1, s2, FlaggedChars(s1, flags[1]), FlaggedChars(s2, flags[2]))

JaroSimilarity(s1, s2) ==
    IF s1 = <<>> /\ s2 = <<>> THEN D
    ELSE IF s1 = <<>> \/ s2 = <<>> THEN 0
    ELSE IF Len(s1) = 1 /\ Len(s2) = 1 THEN (IF s1[1] = s2[1] THEN D ELSE 0)
    ELSE JaroOfFlags(s1, s2,
                     JaroFlags(s1, s2, (Max2(Len(s1), Len(s2)) \div 2) - 1, 1, {}, {}))

\* length of the common prefix, at most 4 characters
RECURSIVE CommonPrefix(_, _, _)
CommonPrefix(s1, s2, k) ==
    IF k < 4 /\ k < Len(s1) /\ k < Len(s2) /\ s1[k + 1] = s2[k + 1]
    THEN CommonPrefix(s1, s2, k + 1) ELSE k

\* JaroWinkler.normalized_similarity(s1, s2), prefix weight 0.1
WinklerBoost(sim, prefix) ==
    IF 10 * sim > 7 * D
    THEN sim + prefix * ((D - sim) \div 10)
    ELSE sim

JaroWinklerSimilarity(s1, s2) ==
    WinklerBoost(JaroSimilarity(s1, s2), CommonPrefix(s1, s2, 0))

(***************************************************************************)
(* rapidfuzz.distance.Levenshtein and Indel (edit distances)               *)
(***************************************************************************)
RECURSIVE LevCells(_, _, _, _)
LevCells(prev, ai, b, cur) ==
    IF Len(cur) = Len(b) + 1 THEN cur
    ELSE LET j == Len(cur)
         IN  LevCells(prev, ai, b,
                 Append(cur, Min2(Min2(prev[j + 1] + 1, cur[j] + 1),
                                  prev[j] + (IF ai = b[j] THEN 0 ELSE 1))))

RECURSIVE LevRows(_, _, _)
LevRows(a, b, prev) ==
    IF a = <<>> THEN prev
    ELSE LevRows(Tail(a), b, LevCells(prev, Head(a), b, <<prev[1] + 1>>))

LevenshteinDistance(a, b) ==
    LevRows(a, b, [j \in 1..(Len(b) + 1) |-> j - 1])[Len(b) + 1]

\* Levenshtein.normalized_similarity(a, b) = 1 - dist / max(len)
LevenshteinSimilarity(a, b) ==
    LET mx == Max2(Len(a), Len(b))
    IN  IF mx = 0 THEN D ELSE D - (D \div mx) * LevenshteinDistance(a, b)

RECURSIVE LcsCells(_, _, _, _)
LcsCells(prev, ai, b, cur) ==
    IF Len(cur) = Len(b) + 1 THEN cur
    ELSE LET j == Len(cur)
         IN  LcsCells(prev, ai, b,
                 Append(cur, IF ai = b[j] THEN prev[j] + 1
                             ELSE Max2(prev[j + 1], cur[j])))

RECURSIVE LcsRows(_, _, _)
LcsRows(a, b, prev) ==
    IF a = <<>> THEN prev
    ELSE LcsRows(Tail(a), b, LcsCells(prev, Head(a), b, <<0>>))

LcsLength(a, b) == LcsRows(a, b, [j \in 1..(Len(b) + 1) |-> 0])[Len(b) + 1]

\* Indel distance: insertions and deletions only
IndelDistance(a, b) == Len(a) + Len(b) - 2 * LcsLength(a, b)

\* (100 - 100 * dist / lensum) / 100, and 1 when lensum is 0
NormDistance(dist, lensum) ==
    IF lensum = 0 THEN D ELSE D - (D \div lensum) * dist

\* fuzz.ratio(a, b) / 100
Ratio(a, b) == NormDistance(IndelDistance(a, b), Len(a) + Len(b))

(***************************************************************************)
(* rapidfuzz.fuzz.token_sort_ratio / token_set_ratio                       *)
(***************************************************************************)
\* a < b for two strings, as Python compares them
RECURSIVE StrLess(_, _)
StrLess(a, b) ==
    IF b = <<>> THEN FALSE
    ELSE IF a = <<>> THEN TRUE
    ELSE IF Ord(Head(a)) # Ord(Head(b)) THEN Ord(Head(a)) < Ord(Head(b))
    ELSE StrLess(Tail(a), Tail(b))

\* sorted(S) for a set of strings
RECURSIVE SortedSet(_)
SortedSet(S) ==
    IF S = {} THEN <<>>
    ELSE LET least == CHOOSE x \in S : \A y \in S \ {x} : StrLess(x, y)
         IN  <<least>> \o SortedSet(S \ {least})

\* sorted(words) for a list of strings (duplicates kept)
RECURSIVE InsertSorted(_, _)
InsertSorted(w, sorted) ==
    IF sorted = <<>> THEN <<w>>
    ELSE IF StrLess(w, Head(sorted)) THEN <<w>> \o sorted
    ELSE <<Head(sorted)>> \o InsertSorted(w, Tail(sorted))

RECURSIVE SortedList(_)
SortedList(words) ==
    IF words = <<>> THEN <<>>
    ELSE InsertSorted(words[Len(words)], SortedList(SubSeq(words, 1, Len(words) - 1)))

\* fuzz.token_sort_ratio(s1, s2) / 100
TokenSortRatio(s1, s2) ==
    Ratio(Join(SortedList(Split(s1))), Join(SortedList(Split(s2))))

\* fuzz.token_set_ratio(s1, s2) / 100
\* the three ratios, from the lengths and the distance of the joined tokens
TokenSetRatios(sect_len, sep, ab_len, ba_len, dist) ==
    LET sect_ab_len == sect_len + sep + ab_len
        sect_ba_len == sect_len + sep + ba_len
        result == NormDistance(dist, sect_ab_len + sect_ba_len)
        sect_ab_ratio == NormDistance(sep + ab_len, sect_len + sect_ab_len)
        sect_ba_ratio == NormDistance(sep + ba_len, sect_len + sect_ba_len)
    IN  IF sect_len = 0 THEN result
        ELSE Max2(result, Max2(sect_ab_ratio, sect_ba_ratio))

TokenSetJoined(diff_ab_joined, diff_ba_joined, sect_len) ==
    TokenSetRatios(sect_len, IF sect_len # 0 THEN 1 ELSE 0,
                   Len(diff_ab_joined), Len(diff_ba_joined),
                   IndelDistance(diff_ab_joined, diff_ba_joined))

TokenSetSplit(intersect, diff_ab, diff_ba) ==
    IF intersect # {} /\ (diff_ab = {} \/ diff_ba = {}) THEN D
    ELSE TokenSetJoined(Join(SortedSet(diff_ab)), Join(SortedSet(diff_ba)),
                        Len(Join(SortedSet(intersect))))

TokenSetOfTokens(tokens_a, tokens_b) ==
    IF tokens_a = {} \/ tokens_b = {} THEN 0
    ELSE TokenSetSplit(tokens_a \cap tokens_b, tokens_a \ tokens_b,
                       tokens_b \ tokens_a)

TokenSetRatio(s1, s2) == TokenSetOfTokens(SeqRange(Split(s1)), SeqRange(Split(s2)))

(***************************************************************************)
(* jellyfish.metaphone, for words over the letters a e i o u f j l m n r   *)
(* y q v z (the letters whose rule looks at no more than the next letter)  *)
(***************************************************************************)
IsVowel(c) == c \in {"a", "e", "i", "o", "u"}

Upper(s) == [i \in 1..Len(s) |->
                IF IndexOf(s[i], LowerLetters) > 0
                THEN UpperLetters[IndexOf(s[i], LowerLetters)] ELSE s[i]]

\* the code letters the character at position i contributes
MetaphoneAt(s, i) ==
    LET c   == s[i]
        nxt == IF i < Len(s) THEN s[i + 1] ELSE "*****"
    IN  IF IndexOf(c, LowerLetters) = 0 THEN <<>>
        ELSE CASE IsVowel(c) -> (IF i = 1 THEN <<c>> ELSE <<>>)
               [] c \in {"f", "j", "l", "m", "n", "r"} -> <<c>>
               [] c = "y" -> (IF IsVowel(nxt) THEN <<"y">> ELSE <<>>)
               [] c = "q" -> <<"k">>
               [] c = "v" -> <<"f">>
               [] c = "z" -> <<"s">>

RECURSIVE MetaphoneFrom(_, _)
MetaphoneFrom(s, i) ==
    IF i > Len(s) THEN <<>>
    ELSE IF i < Len(s) /\ s[i] = s[i + 1] /\ s[i] # "c"
         THEN MetaphoneFrom(s, i + 1)
         ELSE MetaphoneAt(s, i) \o MetaphoneFrom(s, i + 1)

Metaphone(word) ==
    LET s == IF Len(word) >= 2
                /\ SubSeq(word, 1, 2) \in { <<"k","n">>, <<"g","n">>, <<"p","n">>,
                                            <<"w","r">>, <<"a","e">> }
             THEN Tail(word) ELSE word
    IN  Upper(MetaphoneFrom(s, 1))

(***************************************************************************)
(* MatchScorer                                                             *)
(***************************************************************************)
\* DEFAULT_WEIGHTS, in twentieths (0.30, 0.20, 0.25, 0.15, 0.10)
WEIGHT_UNIT == 20
DEFAULT_WEIGHTS == [jaro_winkler |-> 6, levenshtein |-> 4, token_sort |-> 5,
                    token_set |-> 3, phonetic |-> 2]

calculate_jaro_winkler(s1, s2) ==
    IF s1 = <<>> \/ s2 = <<>> THEN 0 ELSE JaroWinklerSimilarity(s1, s2)

calculate_levenshtein(s1, s2) ==
    IF s1 = <<>> \/ s2 = <<>> THEN 0 ELSE LevenshteinSimilarity(s1, s2)

calculate_token_sort(s1, s2) ==
    IF s1 = <<>> \/ s2 = <<>> THEN 0 ELSE TokenSortRatio(s1, s2)

calculate_token_set(s1, s2) ==
    IF s1 = <<>> \/ s2 = <<>> THEN 0 ELSE TokenSetRatio(s1, s2)

\* the share of the codes of the first name found among those of the second
PhoneticOfCodes(codes1, codes2) ==
    (D \div Max2(Len(codes1), Len(codes2)))
        * Cardinality({i \in 1..Len(codes1) : codes1[i] \in SeqRange(codes2)})

MetaphoneAll(words) == [i \in 1..Len(words) |-> Metaphone(words[i])]

PhoneticOfWords(words1, words2) ==
    IF words1 = <<>> \/ words2 = <<>> THEN 0
    ELSE PhoneticOfCodes(MetaphoneAll(words1), MetaphoneAll(words2))

calculate_phonetic(s1, s2) ==
    IF s1 = <<>> \/ s2 = <<>> THEN 0
    ELSE PhoneticOfWords(Split(s1), Split(s2))

\* the order of the keys of the scores dict
ALGORITHMS == <<"jaro_winkler", "levenshtein", "token_sort", "token_set", "phonetic">>

\* max(scores, key=scores.get): the first key holding the largest value
ArgMax(scores) ==
    LET best == SetMax({scores[ALGORITHMS[k]] : k \in 1..Len(ALGORITHMS)})
        first == SetMin({k \in 1..Len(ALGORITHMS) : scores[ALGORITHMS[k]] = best})
    IN  ALGORITHMS[first]

ExactScore == [overall_score |-> D, jaro_winkler |-> D, levenshtein |-> D,
               token_sort |-> D, token_set |-> D, phonetic |-> D,
               exact_match |-> TRUE, algorithm_used |-> "exact"]

\* the weighted sum of the scores of the algorithms
WeightedSum(scores) ==
    ( DEFAULT_WEIGHTS.jaro_winkler * scores.jaro_winkler
    + DEFAULT_WEIGHTS.levenshtein * scores.levenshtein
    + DEFAULT_WEIGHTS.token_sort * scores.token_sort
    + DEFAULT_WEIGHTS.token_set * scores.token_set
    + DEFAULT_WEIGHTS.phonetic * scores.phonetic ) \div WEIGHT_UNIT

\* the MatchScore of a pair that is not an exact match
MatchScore(scores) ==
    [overall_score |-> WeightedSum(scores),
     jaro_winkler |-> scores.jaro_winkler,
     levenshtein |-> scores.levenshtein,
     token_sort |-> scores.token_sort,
     token_set |-> scores.token_set,
     phonetic |-> scores.phonetic,
     exact_match |-> FALSE,
     algorithm_used |-> ArgMax(scores)]

\* score once the two names are normalized, if they are to be
ScoreNormalized(query, target) ==
    IF Lower(query) = Lower(target) THEN ExactScore
    ELSE MatchScore([jaro_winkler |-> calculate_jaro_winkler(query, target),
                     levenshtein  |-> calculate_levenshtein(query, target),
                     token_sort   |-> calculate_token_sort(query, target),
                     token_set    |-> calculate_token_set(query, target),
                     phonetic     |-> calculate_phonetic(query, target)])

\* MatchScorer.score(query, target, normalize)
score(query0, target0, do_normalize) ==
    ScoreNormalized(IF do_normalize THEN normalize(query0, FALSE) ELSE query0,
                    IF do_normalize THEN normalize(target0, FALSE) ELSE target0)

(***************************************************************************)
(* NameNormalizer.generate_variations                                      *)
(***************************************************************************)
\* words with the word at position i replaced
Replaced(words, i, w) == [k \in 1..Len(words) |-> IF k = i THEN w ELSE words[k]]

\* the variations word i contributes: its standard form and every variation
\* of that standard form
ArabicVariationsAt(words, i) ==
    IF ~InVariationMap(words[i]) THEN {}
    ELSE LET standard == VARIATION_MAP(words[i])
         IN  {Join(Replaced(words, i, standard))}
             \cup UNION { {Join(Replaced(words, i, ARABIC_VARIATIONS[k][2][v])) :
                               v \in 1..Len(ARABIC_VARIATIONS[k][2])} :
                          k \in {k \in 1..Len(ARABIC_VARIATIONS) :
                                     ARABIC_VARIATIONS[k][1] = standard} }

\* the variations of a name whose normalized form has the given words
VariationsOfWords(name, normalized, words) ==
    {normalized, normalize(name, FALSE)}
    \cup (IF Len(words) >= 2
          THEN { words[Len(words)] \o <<" ">> \o Join(SubSeq(words, 1, Len(words) - 1)),
                 words[1] \o <<" ">> \o words[Len(words)] }
          ELSE {})
    \cup UNION {ArabicVariationsAt(words, i) : i \in 1..Len(words)}

VariationsOfNormalized(name, normalized) ==
    VariationsOfWords(name, normalized, Split(normalized))

\* the set generate_variations builds, before list() fixes an order
generate_variations(name) == VariationsOfNormalized(name, normalize(name, TRUE))

\* list(variations): the order in which a set of str is iterated depends on
\* the hash seed of the process; two orders are modelled, ascending and
\* descending string order
HashSeeds == {"asc", "desc"}

Reverse(seq) == [i \in 1..Len(seq) |-> seq[Len(seq) + 1 - i]]

SetIterationOrder(S, seed) ==
    IF seed = "asc" THEN SortedSet(S) ELSE Reverse(SortedSet(S))

\* the loop of score_with_variations: the first pair, in iteration order,
\* that no later pair strictly exceeds
RECURSIVE BestOver(_, _, _, _, _)
BestOver(qvs, tvs, i, j, best) ==
    IF i > Len(qvs) THEN best
    ELSE IF j > Len(tvs) THEN BestOver(qvs, tvs, i + 1, 1, best)
    ELSE LET Better(sc) ==
                 IF best = <<>> \/ sc.overall_score > best[1].overall_score
                 THEN <<sc>> ELSE best
         IN  BestOver(qvs, tvs, i, j + 1, Better(score(qvs[i], tvs[j], FALSE)))

\* return best_score or self.score(query, target)
BestOrScore(best_score, query, target) ==
    IF best_score # <<>> THEN best_score[1] ELSE score(query, target, TRUE)

\* MatchScorer.score_with_variations(query, target), run under a hash seed
score_with_variations(query, target, seed) ==
    BestOrScore(BestOver(SetIterationOrder(generate_variations(query), seed),
                         SetIterationOrder(generate_variations(target), seed),
                         1, 1, <<>>),
                query, target)

\* MatchScorer.quick_filter(query, target, threshold)
LengthAndJaroFilter(q, t, threshold) ==
    IF Max2(Len(q), Len(t)) = 0 \/ 2 * Min2(Len(q), Len(t)) < Max2(Len(q), Len(t))
    THEN FALSE
    ELSE calculate_jaro_winkler(q, t) >= threshold

quick_filter(query, target, threshold) ==
    LengthAndJaroFilter(normalize_for_matching(query), normalize_for_matching(target),
                        threshold)

(***************************************************************************)
(* EnhancedScorer: attribute checks                                        *)
(***************************************************************************)
\* None, for an Optional[str] attribute
None == <<"None">>
\* "not x" for an Optional[str]
Falsy(x) == x = None \/ x = <<>>

IsDigit(c) == IndexOf(c, Digits) > 0
AllDigits(s) == \A i \in 1..Len(s) : IsDigit(s[i])

RECURSIVE DigitsValue(_)
DigitsValue(s) == IF s = <<>> THEN 0
                  ELSE 10 * DigitsValue(SubSeq(s, 1, Len(s) - 1))
                       + (IndexOf(s[Len(s)], Digits) - 1)

\* the three digit fields of a date string and the two characters between
\* them, or <<>> when the string has another shape
DateFields(s) ==
    LET Between(i, j) ==
            IF i = 1 \/ j = i + 1 \/ j = Len(s) THEN <<>>
            ELSE << SubSeq(s, 1, i - 1), s[i], SubSeq(s, i + 1, j - 1),
                    s[j], SubSeq(s, j + 1, Len(s)) >>
        Separated(seps) ==
            IF Cardinality(seps) # 2 THEN <<>>
            ELSE Between(SetMin(seps), SetMax(seps))
    IN  Separated({i \in 1..Len(s) : ~IsDigit(s[i])})

IsLeap(y) == (y % 4 = 0 /\ y % 100 # 0) \/ y % 400 = 0
DaysInMonth(y, m) == IF m = 2 THEN (IF IsLeap(y) THEN 29 ELSE 28)
                     ELSE IF m \in {4, 6, 9, 11} THEN 30 ELSE 31

\* the formats _normalize_date tries, in order: field order and separator
DATE_FORMATS == << <<"Ymd", "-">>, <<"dmY", "-">>, <<"mdY", "-">>,
                   <<"Ymd", "/">>, <<"dmY", "/">>, <<"mdY", "/">>,
                   <<"dmY", ".">>, <<"Ymd", ".">> >>

\* datetime.strptime(s, fmt): <<year, month, day>>, or <<>> for ValueError.
\* %Y takes four digits, %m and %d one or two digits in range.
Strptime(s, fmt) ==
    LET Date(y, m, d) ==
            IF y < 1 \/ m < 1 \/ m > 12 \/ d < 1 \/ d > DaysInMonth(y, m) THEN <<>>
            ELSE <<y, m, d>>
        Parsed(ys, ms, ds) ==
            IF Len(ys) # 4 \/ Len(ms) > 2 \/ Len(ds) > 2 THEN <<>>
            ELSE Date(DigitsValue(ys), DigitsValue(ms), DigitsValue(ds))
        Fields(f) ==
            IF f = <<>> THEN <<>>
            ELSE IF f[2] # fmt[2] \/ f[4] # fmt[2] THEN <<>>
            ELSE Parsed(IF fmt[1] = "Ymd" THEN f[1] ELSE f[5],
                        IF fmt[1] = "mdY" THEN f[1] ELSE f[3],
                        IF fmt[1] = "Ymd" THEN f[5]
                        ELSE IF fmt[1] = "dmY" THEN f[1] ELSE f[3])
    IN  Fields(DateFields(s))

\* EnhancedScorer._normalize_date: the date under the first format that
\* parses, or <<>> for None
RECURSIVE NormalizeDateFrom(_, _)
NormalizeDateFrom(s, k) ==
    IF k > Len(DATE_FORMATS) THEN <<>>
    ELSE LET Tried(date) == IF date # <<>> THEN date ELSE NormalizeDateFrom(s, k + 1)
         IN  Tried(Strptime(s, DATE_FORMATS[k]))

normalize_date(date_str) ==
    IF Falsy(date_str) THEN <<>> ELSE NormalizeDateFrom(Strip(date_str), 1)

\* a slip: two dates that do not parse taken for the same date
check_dob_match_unparsed(query, target) ==
    IF Falsy(query) \/ Falsy(target) THEN FALSE
    ELSE normalize_date(query) = normalize_date(target)

\* EnhancedScorer._check_dob_match
check_dob_match(query, target) ==
    IF Falsy(query) \/ Falsy(target) THEN FALSE
    ELSE LET Same(q, t) == IF q # <<>> /\ t # <<>> THEN q = t ELSE FALSE
         IN  Same(normalize_date(query), normalize_date(target))

\* the variations table of _check_nationality_match: each set holds a
\* canonical code and its aliases
NATIONALITY_FORMS == {
  { <<"u","a","e">>,
    <<"u","n","i","t","e","d"," ","a","r","a","b"," ","e","m","i","r","a","t","e","s">>,
    <<"e","m","i","r","a","t","e","s">> },
  { <<"k","s","a">>,
    <<"s","a","u","d","i"," ","a","r","a","b","i","a">>,
    <<"k","i","n","g","d","o","m"," ","o","f"," ","s","a","u","d","i"," ","a","r","a","b","i","a">>,
    <<"s","a","u","d","i">> },
  { <<"u","s","a">>,
    <<"u","n","i","t","e","d"," ","s","t","a","t","e","s">>,
    <<"u","n","i","t","e","d"," ","s","t","a","t","e","s"," ","o","f"," ","a","m","e","r","i","c","a">>,
    <<"a","m","e","r","i","c","a">> },
  { <<"u","k">>,
    <<"u","n","i","t","e","d"," ","k","i","n","g","d","o","m">>,
    <<"g","r","e","a","t"," ","b","r","i","t","a","i","n">>,
    <<"b","r","i","t","a","i","n">>,
    <<"e","n","g","l","a","n","d">> } }

\* EnhancedScorer._check_nationality_match
check_nationality_match(query, target) ==
    IF Falsy(query) \/ Falsy(target) THEN FALSE
    ELSE LET Same(q, t) ==
                 \/ q = t
                 \/ \E forms \in NATIONALITY_FORMS : q \in forms /\ t \in forms
         IN  Same(Lower(Strip(query)), Lower(Strip(target)))

\* re.sub(r'[\s\-]', '', x.strip().upper())
NotSpaceOrHyphen(c) == ~IsSpace(c) /\ c # "-"
NormalizeId(x) == SelectSeq(Upper(Strip(x)), NotSpaceOrHyphen)

\* EnhancedScorer._check_id_match
check_id_match(query, target) ==
    IF Falsy(query) \/ Falsy(target) THEN FALSE
    ELSE NormalizeId(query) = NormalizeId(target)

(***************************************************************************)
(* EnhancedScorer.score                                                    *)
(***************************************************************************)
DOB_BOOST == 15 * (D \div 100)
NATIONALITY_BOOST == 5 * (D \div 100)
ID_BOOST == 20 * (D \div 100)

\* a slip: the boost added without the cap
BoostedUncapped(combined, matched, boost) ==
    IF matched THEN combined + boost ELSE combined

\* combined = min(1.0, combined + boost) when the attribute matches
Boosted(combined, matched, boost) ==
    IF matched THEN Min2(D, combined + boost) ELSE combined

EnhancedScore(name_score, dob_match, nationality_match, id_match) ==
    [name_score |-> name_score,
     dob_match |-> dob_match,
     nationality_match |-> nationality_match,
     id_match |-> id_match,
     combined_score |->
         Boosted(Boosted(Boosted(name_score.overall_score, dob_match, DOB_BOOST),
                         nationality_match, NATIONALITY_BOOST),
                 id_match, ID_BOOST),
     confidence_factors |->
         [k \in {"name"} \cup (IF dob_match THEN {"dob"} ELSE {})
                         \cup (IF nationality_match THEN {"nationality"} ELSE {})
                         \cup (IF id_match THEN {"id"} ELSE {}) |->
             CASE k = "name" -> name_score.overall_score
               [] k = "dob" -> DOB_BOOST
               [] k = "nationality" -> NATIONALITY_BOOST
               [] k = "id" -> ID_BOOST]]

(***************************************************************************)
(* The names, queries and list entries of the model                        *)
(***************************************************************************)
\* ScreeningCandidate(...): __post_init__ derives normalized_name
ScreeningCandidate(name, entity_type, date_of_birth, nationality, national_id, passport_number) ==
    [name |-> name,
     entity_type |-> entity_type,
     date_of_birth |-> date_of_birth,
     nationality |-> nationality,
     national_id |-> national_id,
     passport_number |-> passport_number,
     normalized_name |-> normalize(name, FALSE)]

\* SanctionCandidate(...): __post_init__ derives normalized_name and
\* normalized_aliases
SanctionCandidate(id, list_code, primary_name, entity_type, aliases, date_of_birth, nationality, national_id) ==
    [id |-> id,
     list_code |-> list_code,
     primary_name |-> primary_name,
     entity_type |-> entity_type,
     aliases |-> aliases,
     date_of_birth |-> date_of_birth,
     nationality |-> nationality,
     national_id |-> national_id,
     normalized_name |-> normalize(primary_name, FALSE),
     normalized_aliases |-> [i \in 1..Len(aliases) |-> normalize(aliases[i], FALSE)]]

OFAC == <<"O","F","A","C">>
UN == <<"U","N">>
LOCAL_QAT == <<"L","O","C","A","L","_","Q","A","T">>

\* the queries a caller of the engine screens
CandidatePool == {
    ScreeningCandidate(<<"O","m","a","r"," ","A","l","y">>, "individual", <<"1","5","-","0","3","-","1","9","7","5">>, <<"U","A","E">>, None, None),
    ScreeningCandidate(<<"O","M","A","R","-","A","L","I">>, "individual", None, None, <<"a"," ","1">>, None),
    ScreeningCandidate(<<"A","l","i"," ","O","m","a","r">>, "individual", <<"1","9","7","5","/","0","3","/","1","5">>, <<>>, None, <<"A","1">>),
    ScreeningCandidate(<<"A","l">>, "individual", None, None, None, None),
    ScreeningCandidate(<<"M","o","n","a">>, "individual", None, None, None, None) }

\* the entries of the sanction lists a caller of the engine passes
EntryPool == {
    SanctionCandidate(1, OFAC, <<"O","m","a","r"," ","A","l","i">>, "individual", <<<<"A","l","y"," ","O","m","a","r">>>>, <<"1","9","7","5","-","0","3","-","1","5">>, <<"E","m","i","r","a","t","e","s">>, <<"A","-","1">>),
    SanctionCandidate(2, UN, <<"L","i"," ","A","l","i">>, "individual", <<>>, <<"1","9","7","5","-","0","3","-","1","5">>, <<"u","a","e">>, None),
    SanctionCandidate(3, UN, <<"A","l">>, "individual", <<>>, None, None, None),
    SanctionCandidate(4, UN, <<"U","m","a","r"," ","A","l","i">>, "individual", <<<<"A","l","-","O","m","a","r">>, <<"A","l","i"," ","O","m","a","r">>>>, None, None, None),
    SanctionCandidate(5, OFAC, <<"O","m","a","r",","," ","A","l","i">>, "individual", <<>>, None, None, None) }

\* entries whose aliases score more than their primary names: two aliases of
\* the same score, and a second alias that scores more than the first
AliasPool == {
    SanctionCandidate(6, OFAC, <<"L","i"," ","A","l","i">>, "individual", <<<<"O","m","a","r"," ","A","l","i">>, <<"O","m","a","r",","," ","A","l","i">>>>, None, None, None),
    SanctionCandidate(7, UN, <<"L","i"," ","A","l","i">>, "individual", <<<<"A","l">>, <<"A","l","i"," ","O","m","a","r">>>>, None, None, None) }

\* SANCTIONS_DATA: the entries of the lists, in the order of the lists
SANCTIONS_DATA == <<
    [list_code |-> OFAC, primary_name |-> <<"O","m","a","r"," ","A","l","i">>, entry_type |-> "individual",
     aliases |-> <<<<"A","l","y"," ","O","m","a","r">>>>, date_of_birth |-> <<"1","9","7","5","-","0","3","-","1","5">>,
     nationality |-> <<"E","m","i","r","a","t","e","s">>, national_id |-> <<"A","-","1">>],
    [list_code |-> UN, primary_name |-> <<"L","i"," ","A","l","i">>, entry_type |-> "individual",
     aliases |-> <<>>, date_of_birth |-> <<"1","9","7","5","-","0","3","-","1","5">>,
     nationality |-> <<"u","a","e">>, national_id |-> None],
    [list_code |-> LOCAL_QAT, primary_name |-> <<"M","o","n","a"," ","O","i","l">>, entry_type |-> "entity",
     aliases |-> <<>>, date_of_birth |-> None,
     nationality |-> None, national_id |-> None] >>

\* the codes of the lists of SANCTIONS_LISTS_CONFIG and LOCAL_LISTS_CONFIG
LIST_CODES == {OFAC, UN, LOCAL_QAT}

\* sanctions_service.get_all_entries(): the entries of the lists whose
\* is_active is set, active being is_active by list code
get_all_entries(active) ==
    LET IsActive(entry) == active[entry.list_code]
    IN  SelectSeq(SANCTIONS_DATA, IsActive)

\* the SanctionCandidates of entries: entry_id counts from 1
CandidatesOf(all_entries) ==
    [i \in 1..Len(all_entries) |->
        SanctionCandidate(i, all_entries[i].list_code, all_entries[i].primary_name,
                          all_entries[i].entry_type, all_entries[i].aliases,
                          all_entries[i].date_of_birth, all_entries[i].nationality,
                          all_entries[i].national_id)]

\* get_all_sanction_candidates()
get_all_sanction_candidates(active) == CandidatesOf(get_all_entries(active))

\* the individuals and companies the requests of the API name
IndividualPool == {
    [full_name |-> <<"O","M","A","R","-","A","L","I">>, date_of_birth |-> None, nationality |-> None,
     national_id |-> <<"a"," ","1">>, passport_number |-> None],
    [full_name |-> <<"M","o","n","a">>, date_of_birth |-> None, nationality |-> None,
     national_id |-> None, passport_number |-> None] }
CorporatePool == { [company_name |-> <<"M","o","n","a">>] }

\* individuals whose best score against the lists is 0.91, 0.86 and, below
\* the default threshold, 0.51
LadderPool == {
    [full_name |-> n, date_of_birth |-> None, nationality |-> None,
     national_id |-> None, passport_number |-> None] :
        n \in {<<"O","m","a","r"," ","A","l","a">>,
               <<"O","m","a","r"," ","E","l","i">>,
               <<"O","m","a","n">>} }

\* screen_single's candidate for an individual and for a company
IndividualCandidate(individual) ==
    ScreeningCandidate(individual.full_name, "individual", individual.date_of_birth,
                       individual.nationality, individual.national_id,
                       individual.passport_number)
CorporateCandidate(corporate) ==
    ScreeningCandidate(corporate.company_name, "corporate", None, None, None, None)

\* the subsequences of a sequence
RECURSIVE SeqsOf(_)
SeqsOf(seq) ==
    IF seq = <<>> THEN {<<>>}
    ELSE LET rest == SeqsOf(Tail(seq))
         IN  rest \cup {<<Head(seq)>> \o s : s \in rest}

\* every query and every entry the model scores
AllCandidates == CandidatePool \cup {IndividualCandidate(x) : x \in IndividualPool \cup LadderPool}
                               \cup {CorporateCandidate(x) : x \in CorporatePool}
AllEntries == EntryPool \cup AliasPool \cup UNION {SeqRange(CandidatesOf(es)) : es \in SeqsOf(SANCTIONS_DATA)}

QueryNames == {c.name : c \in AllCandidates}
TargetNames == UNION {{e.primary_name} \cup SeqRange(e.aliases) : e \in AllEntries}

\* score_with_variations on the names of the model, each pair scored once
\* (@@ makes TLC tabulate the function instead of evaluating it at each use)
NameScoreCache ==
    [k \in QueryNames \X TargetNames \X HashSeeds |->
        score_with_variations(k[1], k[2], k[3])] @@ <<>>

\* EnhancedScorer.score(query_name, target_name, ...), run under a hash seed
EnhancedScorer_score(query_name, target_name, query_dob, target_dob, query_nationality, target_nationality, query_id, target_id, seed) ==
    EnhancedScore(NameScoreCache[<<query_name, target_name, seed>>],
                  check_dob_match(query_dob, target_dob),
                  check_nationality_match(query_nationality, target_nationality),
                  check_id_match(query_id, target_id))

(***************************************************************************)
(* ScreeningMatcher                                                        *)
(***************************************************************************)
\* a threshold given as hundredths
Hundredths(n) == n * (D \div 100)

\* settings.DEFAULT_MATCH_THRESHOLD
DEFAULT_MATCH_THRESHOLD == Hundredths(75)

\* RISK_THRESHOLDS, in dict order
RISK_THRESHOLDS == << <<"critical", Hundredths(95)>>, <<"high", Hundredths(85)>>,
                      <<"medium", Hundredths(70)>>, <<"low", 0>> >>

\* a slip: a score has to exceed the minimum of a level
determine_risk_level_strict(sc) ==
    IF \E k \in 1..Len(RISK_THRESHOLDS) : sc > RISK_THRESHOLDS[k][2]
    THEN RISK_THRESHOLDS[SetMin({k \in 1..Len(RISK_THRESHOLDS) :
                                     sc > RISK_THRESHOLDS[k][2]})][1]
    ELSE "low"

\* ScreeningMatcher._determine_risk_level
determine_risk_level(sc) ==
    IF \E k \in 1..Len(RISK_THRESHOLDS) : sc >= RISK_THRESHOLDS[k][2]
    THEN RISK_THRESHOLDS[SetMin({k \in 1..Len(RISK_THRESHOLDS) :
                                     sc >= RISK_THRESHOLDS[k][2]})][1]
    ELSE "low"

\* "x or y" on two Optional[str]
OrElse(x, y) == IF Falsy(x) THEN y ELSE x

\* the threshold screen uses: threshold or self.default_threshold
\* (an Optional[float] is <<>> for None and <<x>> for the float x)
EffectiveThreshold(self, threshold) ==
    IF threshold = <<>> \/ threshold[1] = 0 THEN self.default_threshold
    ELSE threshold[1]

\* threshold * 0.7
FilterThreshold(threshold) == 7 * (threshold \div 10)

\* a slip: the pre-filter never tried on the aliases
PassesOnPrimary(self, candidate, entry, threshold) ==
    quick_filter(candidate.normalized_name, entry.normalized_name,
                 FilterThreshold(threshold))

\* the pre-filter of one entry: its primary name, then its aliases
PassesQuickFilter(self, candidate, entry, threshold) ==
    \/ quick_filter(candidate.normalized_name, entry.normalized_name,
                    FilterThreshold(threshold))
    \/ /\ self.include_aliases
       /\ \E i \in 1..Len(entry.normalized_aliases) :
              quick_filter(candidate.normalized_name, entry.normalized_aliases[i],
                           FilterThreshold(threshold))

ScoreAgainst(candidate, entry, target_name, seed) ==
    EnhancedScorer_score(candidate.name, target_name,
                         candidate.date_of_birth, entry.date_of_birth,
                         candidate.nationality, entry.nationality,
                         OrElse(candidate.national_id, candidate.passport_number),
                         entry.national_id, seed)

\* a slip: an alias replaces the best so far when its combined score is
\* as great
RECURSIVE BestAliasOnTie(_, _, _, _, _)
BestAliasOnTie(candidate, entry, i, best, seed) ==
    IF i > Len(entry.aliases) THEN best
    ELSE LET Better(alias_score) ==
                 IF alias_score.combined_score >= best.score_details.combined_score
                 THEN [matched_name |-> entry.aliases[i],
                       is_alias_match |-> TRUE,
                       score_details |-> alias_score]
                 ELSE best
         IN  BestAliasOnTie(candidate, entry, i + 1,
                            Better(ScoreAgainst(candidate, entry, entry.aliases[i], seed)),
                            seed)

\* the alias loop: an alias replaces the best so far only when its combined
\* score is strictly greater
RECURSIVE BestAlias(_, _, _, _, _)
BestAlias(candidate, entry, i, best, seed) ==
    IF i > Len(entry.aliases) THEN best
    ELSE LET Better(alias_score) ==
                 IF alias_score.combined_score > best.score_details.combined_score
                 THEN [matched_name |-> entry.aliases[i],
                       is_alias_match |-> TRUE,
                       score_details |-> alias_score]
                 ELSE best
         IN  BestAlias(candidate, entry, i + 1,
                       Better(ScoreAgainst(candidate, entry, entry.aliases[i], seed)),
                       seed)

\* "if self.include_aliases": the alias loop, from the primary name's score
WithAliases(self, candidate, entry, primary, seed) ==
    IF self.include_aliases
    THEN BestAlias(candidate, entry, 1, primary, seed)
    ELSE primary

\* the best of an entry's primary name and aliases
BestOfEntry(self, candidate, entry, seed) ==
    WithAliases(self, candidate, entry,
                [matched_name |-> entry.primary_name,
                 is_alias_match |-> FALSE,
                 score_details |->
                     ScoreAgainst(candidate, entry, entry.primary_name, seed)],
                seed)

MatchResult(entry, best) ==
    [sanction_candidate |-> entry,
     matched_name |-> best.matched_name,
     is_alias_match |-> best.is_alias_match,
     score_details |-> best.score_details]

\* MatchResult.score
Score(m) == m.score_details.combined_score

\* a slip: the match test made against the pre-filter's threshold
AboveFilterThreshold(best, threshold) ==
    best.score_details.combined_score >= FilterThreshold(threshold)

\* "Add match if above threshold"
AboveThreshold(best, threshold) == best.score_details.combined_score >= threshold

\* the thresholds screen can come to use
EffectiveThresholds == {DEFAULT_MATCH_THRESHOLD, Hundredths(50), Hundredths(90), D}

\* PassesQuickFilter and BestOfEntry on the queries and entries of the
\* model, each computed once (@@ makes TLC tabulate the function)
PreFilterCache ==
    [k \in AllCandidates \X AllEntries \X BOOLEAN \X EffectiveThresholds |->
        PassesQuickFilter([include_aliases |-> k[3]], k[1], k[2], k[4])] @@ <<>>

EntryScoreCache ==
    [k \in AllCandidates \X AllEntries \X BOOLEAN \X HashSeeds |->
        BestOfEntry([include_aliases |-> k[3]], k[1], k[2], k[4])] @@ <<>>

\* the loop over the entries: the matches in corpus order
RECURSIVE CollectMatches(_, _, _, _, _)
CollectMatches(self, candidate, sanction_entries, threshold, seed) ==
    IF sanction_entries = <<>> THEN <<>>
    ELSE LET entry == Head(sanction_entries)
             rest  == CollectMatches(self, candidate, Tail(sanction_entries),
                                     threshold, seed)
             Scored(best) ==
                 IF AboveThreshold(best, threshold)
                 THEN <<MatchResult(entry, best)>> \o rest
                 ELSE rest
         IN  IF ~PreFilterCache[<<candidate, entry, self.include_aliases, threshold>>]
             THEN rest
             ELSE Scored(EntryScoreCache[<<candidate, entry,
                                          self.include_aliases, seed>>])

\* matches.sort(key=lambda m: m.score, reverse=True): a stable sort
RECURSIVE InsertByScore(_, _)
InsertByScore(m, sorted) ==
    IF sorted = <<>> THEN <<m>>
    ELSE IF Score(m) >= Score(Head(sorted)) THEN <<m>> \o sorted
    ELSE <<Head(sorted)>> \o InsertByScore(m, Tail(sorted))

\* a slip: the sort left out
Unsorted(matches) == matches

RECURSIVE SortByScore(_)
SortByScore(matches) ==
    IF matches = <<>> THEN <<>>
    ELSE InsertByScore(Head(matches), SortByScore(Tail(matches)))

\* a slip: one match too many kept
TruncateOffByOne(matches, max_results) ==
    SubSeq(matches, 1, Min2(Len(matches), max_results + 1))

\* matches[:max_results]
Truncate(matches, max_results) ==
    SubSeq(matches, 1, Min2(Len(matches), max_results))

\* a slip: the score of the last match taken
LowestScore(matches) ==
    IF matches # <<>> THEN Score(matches[Len(matches)]) ELSE 0

\* matches[0].score if matches else 0.0
HighestScore(matches) == IF matches # <<>> THEN Score(matches[1]) ELSE 0

\* a slip: the list of the first entry never added
ListsAfterFirst(sanction_entries) ==
    {sanction_entries[i].list_code : i \in 2..Len(sanction_entries)}

\* lists_screened after the loop: lists_screened.add(entry.list_code) for
\* every entry, before the pre-filter
ListsSeen(sanction_entries) ==
    {sanction_entries[i].list_code : i \in 1..Len(sanction_entries)}

\* the ScreeningResponse of the sorted and truncated matches, without the
\* timing fields
ScreeningResponse(reference_id, candidate, matches, sanction_entries, seed) ==
    [reference_id |-> reference_id,
     screened_entity |-> candidate,
     matches |-> matches,
     total_matches |-> Len(matches),
     highest_score |-> HighestScore(matches),
     risk_level |-> determine_risk_level(HighestScore(matches)),
     lists_screened |-> SetIterationOrder(ListsSeen(sanction_entries), seed)]

\* ScreeningMatcher.screen(candidate, sanction_entries, threshold,
\* reference_id); fresh_uuid is what uuid4() returns when it is called
screen(self, candidate, sanction_entries, threshold0, reference_id0, fresh_uuid, seed) ==
    ScreeningResponse(
        OrElse(reference_id0, fresh_uuid),
        candidate,
        Truncate(SortByScore(CollectMatches(self, candidate, sanction_entries,
                                            EffectiveThreshold(self, threshold0),
                                            seed)),
                 self.max_results),
        sanction_entries, seed)

(***************************************************************************)
(* Conversions of the responses: to_dict                                   *)
(***************************************************************************)
\* round(x, 4), as a number of ten-thousandths
Round4(x) == (20 * x + D \div 1000) \div (2 * (D \div 1000))

\* MatchScore.to_dict
MatchScore_to_dict(self) ==
    [overall_score |-> Round4(self.overall_score),
     jaro_winkler |-> Round4(self.jaro_winkler),
     levenshtein |-> Round4(self.levenshtein),
     token_sort |-> Round4(self.token_sort),
     token_set |-> Round4(self.token_set),
     phonetic |-> Round4(self.phonetic),
     exact_match |-> self.exact_match,
     algorithm_used |-> self.algorithm_used]

\* EnhancedMatchResult.to_dict
EnhancedMatchResult_to_dict(self) ==
    [name_score |-> MatchScore_to_dict(self.name_score),
     dob_match |-> self.dob_match,
     nationality_match |-> self.nationality_match,
     id_match |-> self.id_match,
     combined_score |-> Round4(self.combined_score),
     confidence_factors |-> self.confidence_factors]

\* MatchResult.to_dict, without the fields of the entry the model leaves out
MatchResult_to_dict(self) ==
    [sanction_entry_id |-> self.sanction_candidate.id,
     list_code |-> self.sanction_candidate.list_code,
     matched_name |-> self.matched_name,
     primary_name |-> self.sanction_candidate.primary_name,
     is_alias_match |-> self.is_alias_match,
     entity_type |-> self.sanction_candidate.entity_type,
     score |-> Round4(Score(self)),
     score_details |-> EnhancedMatchResult_to_dict(self.score_details)]

\* ScreeningResponse.to_dict, without the timing fields
ScreeningResponse_to_dict(self) ==
    [reference_id |-> self.reference_id,
     screened_name |-> self.screened_entity.name,
     entity_type |-> self.screened_entity.entity_type,
     total_matches |-> self.total_matches,
     highest_score |-> Round4(self.highest_score),
     risk_level |-> self.risk_level,
     lists_screened |-> self.lists_screened,
     matches |-> [i \in 1..Len(self.matches) |-> MatchResult_to_dict(self.matches[i])]]

(***************************************************************************)
(* screen_bulk and process_daily_screening                                 *)
(***************************************************************************)
\* str(i) of an integer i >= 0
RECURSIVE Str(_)
Str(i) == IF i < 10 THEN <<Digits[i + 1]>>
          ELSE Str(i \div 10) \o <<Digits[(i % 10) + 1]>>

\* str(uuid.uuid4()) on the n-th call of the process: a fresh value each time
Uuid4(n) == <<"u", "u", "i", "d">> \o Str(n)

\* f"{batch_id}-{i}"
Reference(batch_id, i) == batch_id \o <<"-">> \o Str(i)

\* a dict is the sequence of its <<key, value>> items; dict.get(key, default)
RECURSIVE DictGet(_, _, _)
DictGet(d, key, default) ==
    IF d = <<>> THEN default
    ELSE IF d[Len(d)][1] = key THEN d[Len(d)][2]
    ELSE DictGet(SubSeq(d, 1, Len(d) - 1), key, default)

\* a slip: the responses returned in the order the workers finished
ResultsAsCompleted(done, finished) ==
    [k \in 1..Len(finished) |-> done[finished[k]][1]]

\* await asyncio.gather(*tasks): the results of the tasks in the order of
\* the tasks, whatever the order they finished in
GatherResults(done, finished) ==
    [i \in 1..Len(done) |-> done[i][1]]

\* previous_results.get(entity_id, 0.0)
PrevScore(previous_results, r) == DictGet(previous_results, r.reference_id, 0)

\* a slip: a prior of 0 counted as a prior match
DiffClassLoose(highest_score, prev_score) ==
    IF highest_score > 0 /\ prev_score = 0 THEN "new"
    ELSE IF highest_score = 0 /\ prev_score >= 0 THEN "cleared"
    ELSE "unchanged"

\* the branch of the loop of process_daily_screening a response takes
DiffClass(highest_score, prev_score) ==
    IF highest_score > 0 /\ prev_score = 0 THEN "new"
    ELSE IF highest_score = 0 /\ prev_score > 0 THEN "cleared"
    ELSE "unchanged"

\* what process_daily_screening returns once screen_bulk has returned rs
DailyDiff(existing_entities, rs, previous_results) ==
    LET Class(r) == DiffClass(r.highest_score, PrevScore(previous_results, r))
        IsNew(r) == Class(r) = "new"
        IsCleared(r) == Class(r) = "cleared"
        IsUnchanged(r) == Class(r) = "unchanged"
        HasMatches(r) == r.total_matches > 0
        new_matches == SelectSeq(rs, IsNew)
        cleared == SelectSeq(rs, IsCleared)
    IN  [new_matches |->
             [i \in 1..Len(new_matches) |-> ScreeningResponse_to_dict(new_matches[i])],
         cleared_matches |->
             [i \in 1..Len(cleared) |->
                 [entity_id |-> cleared[i].reference_id,
                  previous_score |-> PrevScore(previous_results, cleared[i])]],
         unchanged_count |-> Len(SelectSeq(rs, IsUnchanged)),
         total_screened |-> Len(existing_entities),
         total_with_matches |-> Len(SelectSeq(rs, HasMatches))]

(***************************************************************************)
(* The screening routes of the API                                         *)
(***************************************************************************)
\* settings.HIGH_RISK_THRESHOLD
HIGH_RISK_THRESHOLD == Hundredths(90)

\* the matcher of a ScreeningMatcher() built with the defaults, which is
\* also the matcher the routes build
DefaultMatcher == [default_threshold |-> DEFAULT_MATCH_THRESHOLD,
                   include_aliases |-> TRUE,
                   max_results |-> 50]

\* datetime.utcnow().strftime('%Y%m%d') on the day of the run
TODAY == <<"2","0","2","4","1","2","1","1">>

\* uuid.uuid4().hex[:k].upper()
HexUpper(u, k) == Upper(SubSeq(u, 1, Min2(k, Len(u))))

\* the cases init_demo_cases() stores when the module is loaded
DEMO_CASES == <<
    [id |-> 1, case_number |-> <<"W","F","-","2","0","2","4","1","2","1","0","-","A","B","C","1","2","3">>, screening_result_id |-> 1,
     reference_id |-> <<"S","C","R","-","2","0","2","4","1","2","1","0","-","D","E","M","O","0","0","1">>, status |-> "open", priority |-> "high",
     country_code |-> <<"U","A","E">>, screened_name |-> <<"M","o","h","a","m","m","a","d"," ","A","l","-","R","a","s","h","i","d"," ","(","D","e","m","o",")">>,
     highest_match_score |-> Hundredths(92)],
    [id |-> 2, case_number |-> <<"W","F","-","2","0","2","4","1","2","1","0","-","D","E","F","4","5","6">>, screening_result_id |-> 2,
     reference_id |-> <<"S","C","R","-","2","0","2","4","1","2","1","0","-","D","E","M","O","0","0","2">>, status |-> "escalated", priority |-> "urgent",
     country_code |-> <<"S","A","U">>, screened_name |-> <<"A","h","m","e","d"," ","H","a","s","s","a","n"," ","I","b","r","a","h","i","m">>,
     highest_match_score |-> Hundredths(96)] >>

\* the first action of a case
CreatedAction(case_id) == <<[id |-> 1, case_id |-> case_id, action_type |-> "created"]>>

DEMO_ACTIONS == <<CreatedAction(1), CreatedAction(2)>>

\* a slip: the priority high given from HIGH_RISK_THRESHOLD on
CasePriorityFromHighRisk(highest_score) ==
    IF highest_score >= Hundredths(95) THEN "urgent"
    ELSE IF highest_score >= HIGH_RISK_THRESHOLD THEN "high"
    ELSE IF highest_score >= Hundredths(70) THEN "medium"
    ELSE "low"

\* the priority create_workflow_case_from_screening gives a score
CasePriority(highest_score) ==
    IF highest_score >= Hundredths(95) THEN "urgent"
    ELSE IF highest_score >= Hundredths(85) THEN "high"
    ELSE IF highest_score >= Hundredths(70) THEN "medium"
    ELSE "low"

\* d[key] = value on a dict whose keys are 1..Len(d)
DictSet(d, key, value) ==
    IF key \in DOMAIN d THEN [d EXCEPT ![key] = value] ELSE Append(d, value)

\* create_workflow_case_from_screening on the store st: the stored cases,
\* their actions, NEXT_CASE_ID and the number of uuid4() calls made
create_workflow_case_from_screening(screened_name, highest_score, reference_id, country_code, st) ==
    LET case == [id |-> st.next_case_id,
                 case_number |-> <<"W","F","-">> \o TODAY \o <<"-">>
                                     \o HexUpper(Uuid4(st.uuids + 1), 6),
                 screening_result_id |-> st.next_case_id,
                 reference_id |-> reference_id,
                 status |-> "open",
                 priority |-> CasePriority(highest_score),
                 country_code |-> country_code,
                 screened_name |-> screened_name,
                 highest_match_score |-> highest_score]
    IN  [st EXCEPT
             !.cases = DictSet(st.cases, st.next_case_id, case),
             !.actions = DictSet(st.actions, st.next_case_id, CreatedAction(st.next_case_id)),
             !.next_case_id = st.next_case_id + 1,
             !.uuids = st.uuids + 1]

\* a SingleScreeningRequest: individual and corporate are <<>> (None) or
\* <<the data>>, match_threshold is <<>> (None) or <<the threshold>>
SingleScreeningRequest(entity_type, individual, corporate, skip_realtime, match_threshold) ==
    [entity_type |-> entity_type,
     individual |-> individual,
     corporate |-> corporate,
     skip_realtime |-> skip_realtime,
     match_threshold |-> match_threshold]

\* the MatchDetail of a match
MatchDetail(match) ==
    [sanction_entry_id |-> match.sanction_candidate.id,
     list_code |-> match.sanction_candidate.list_code,
     matched_name |-> match.matched_name,
     primary_name |-> match.sanction_candidate.primary_name,
     is_alias_match |-> match.is_alias_match,
     aliases |-> match.sanction_candidate.aliases,
     entity_type |-> match.sanction_candidate.entity_type,
     match_score |-> Score(match),
     score_details |-> match.score_details.name_score,
     dob_match |-> match.score_details.dob_match,
     nationality_match |-> match.score_details.nationality_match,
     id_match |-> match.score_details.id_match,
     status |-> IF Score(match) >= HIGH_RISK_THRESHOLD
                THEN "pending_review" ELSE "pending_review"]

\* request.match_threshold or settings.DEFAULT_MATCH_THRESHOLD
OrElseThreshold(match_threshold) ==
    IF match_threshold = <<>> \/ match_threshold[1] = 0
    THEN DEFAULT_MATCH_THRESHOLD
    ELSE match_threshold[1]

\* the sanctions screen_single screens a request of an entity type against
FilteredSanctions(entity_type, active) ==
    LET IsIndividual(s) == s.entity_type = "individual"
        IsCorporate(s) == s.entity_type \in {"corporate", "entity"}
    IN  IF entity_type = "individual"
        THEN SelectSeq(get_all_sanction_candidates(active), IsIndividual)
        ELSE SelectSeq(get_all_sanction_candidates(active), IsCorporate)

\* the response of a request with skip_realtime: released, to be screened
\* by the daily batch
ReleasedResponse(reference_id, request, candidate) ==
    [reference_id |-> reference_id,
     screened_name |-> candidate.name,
     entity_type |-> request.entity_type,
     total_matches |-> 0,
     highest_score |-> 0,
     risk_level |-> "low",
     matches |-> <<>>,
     lists_screened |-> <<>>,
     overall_status |-> "released",
     auto_released |-> TRUE]

\* a slip: every result with a match escalated
OverallStatusAnyMatch(total_matches, highest_score) ==
    IF total_matches > 0 THEN "escalated" ELSE "released"

\* a slip: the test against HIGH_RISK_THRESHOLD left out
OverallStatusNeverEscalated(total_matches, highest_score) ==
    IF total_matches > 0 THEN "pending_review" ELSE "released"

\* "Determine overall status"
OverallStatus(total_matches, highest_score) ==
    IF total_matches > 0
    THEN IF highest_score >= HIGH_RISK_THRESHOLD
         THEN "escalated" ELSE "pending_review"
    ELSE "released"

\* auto_released, set beside overall_status
AutoReleased(total_matches) == IF total_matches > 0 THEN FALSE ELSE TRUE

\* the ScreeningResultResponse of the result of the matcher
ScreenedResponse(reference_id, request, candidate, result) ==
    [reference_id |-> reference_id,
     screened_name |-> candidate.name,
     entity_type |-> request.entity_type,
     total_matches |-> result.total_matches,
     highest_score |-> result.highest_score,
     risk_level |-> result.risk_level,
     matches |-> [i \in 1..Len(result.matches) |-> MatchDetail(result.matches[i])],
     lists_screened |-> result.lists_screened,
     overall_status |-> OverallStatus(result.total_matches, result.highest_score),
     auto_released |-> AutoReleased(result.total_matches)]

\* the store once the result has its workflow case, when it gets one
WithWorkflowCase(reference_id, candidate, result, current_user, st) ==
    IF result.total_matches > 0 /\ result.highest_score >= Hundredths(50)
    THEN create_workflow_case_from_screening(
             candidate.name, result.highest_score, reference_id,
             OrElse(current_user.country_code, <<"U","A","E">>), st)
    ELSE st

\* screen_single from the result of the matcher on
ScreenedOutcome(reference_id, request, candidate, result, current_user, st) ==
    [raised |-> FALSE, status_code |-> 200,
     st |-> WithWorkflowCase(reference_id, candidate, result, current_user, st),
     data |-> <<ScreenedResponse(reference_id, request, candidate, result)>>]

\* a slip: skip_realtime not looked at
ScreenCandidateAlways(self, reference_id, request, candidate, current_user, st, seed) ==
    ScreenedOutcome(
        reference_id, request, candidate,
        screen(self, candidate, FilteredSanctions(request.entity_type, st.is_active),
               <<OrElseThreshold(request.match_threshold)>>, reference_id,
               Uuid4(st.uuids + 1), seed),
        current_user, st)

\* screen_single from the candidate on
ScreenCandidate(self, reference_id, request, candidate, current_user, st, seed) ==
    IF request.skip_realtime
    THEN [raised |-> FALSE, status_code |-> 200, st |-> st,
          data |-> <<ReleasedResponse(reference_id, request, candidate)>>]
    ELSE ScreenedOutcome(
             reference_id, request, candidate,
             screen(self, candidate, FilteredSanctions(request.entity_type, st.is_active),
                    <<OrElseThreshold(request.match_threshold)>>, reference_id,
                    Uuid4(st.uuids + 1), seed),
             current_user, st)

\* screen_single(request, current_user) run by the matcher self on the
\* store st, in a process with hash seed seed: raised tells whether it
\* raised HTTPException(400), data is the ScreeningResultResponse
screen_single(self, request, current_user, st, seed) ==
    IF (IF request.entity_type = "individual"
        THEN request.individual = <<>>
        ELSE request.corporate = <<>>)
    THEN [raised |-> TRUE, status_code |-> 400, data |-> <<>>,
          st |-> [st EXCEPT !.uuids = @ + 1]]
    ELSE ScreenCandidate(self,
                         <<"S","C","R","-">> \o TODAY \o <<"-">>
                             \o HexUpper(Uuid4(st.uuids + 1), 8),
                         request,
                         IF request.entity_type = "individual"
                         THEN IndividualCandidate(request.individual[1])
                         ELSE CorporateCandidate(request.corporate[1]),
                         current_user,
                         [st EXCEPT !.uuids = @ + 1],
                         seed)

\* a slip: the lists are switched off once a request of the batch is done,
\* as a toggle arriving inside the batch would do
RECURSIVE BulkLoopToggled(_, _, _, _, _, _)
BulkLoopToggled(self, requests, i, current_user, acc, seed) ==
    IF i > Len(requests) THEN acc
    ELSE LET Off(st) == [st EXCEPT !.is_active = [code \in DOMAIN @ |-> FALSE]]
             After(out) ==
                 IF out.raised
                 THEN [acc EXCEPT !.failed = @ + 1, !.st = Off(out.st)]
                 ELSE [acc EXCEPT !.results = Append(@, out.data[1]),
                                  !.st = Off(out.st)]
         IN  BulkLoopToggled(self, requests, i + 1, current_user,
                             After(screen_single(self, requests[i], current_user,
                                                 acc.st, seed)),
                             seed)

\* the loop of the bulk route from request i on: acc holds results, failed,
\* total_with_matches, high_risk_count and the store
RECURSIVE BulkLoop(_, _, _, _, _, _)
BulkLoop(self, requests, i, current_user, acc, seed) ==
    IF i > Len(requests) THEN acc
    ELSE LET Counted(data, st) ==
                 [results |-> Append(acc.results, data),
                  failed |-> acc.failed,
                  total_with_matches |->
                      acc.total_with_matches
                          + (IF data.total_matches > 0 THEN 1 ELSE 0),
                  high_risk_count |->
                      acc.high_risk_count
                          + (IF data.risk_level \in {"high", "critical"}
                             THEN 1 ELSE 0),
                  st |-> st]
             After(out) ==
                 IF out.raised
                 THEN [acc EXCEPT !.failed = @ + 1, !.st = out.st]
                 ELSE Counted(out.data[1], out.st)
         IN  BulkLoop(self, requests, i + 1, current_user,
                      After(screen_single(self, requests[i], current_user, acc.st, seed)),
                      seed)

\* the bulk route, screen_bulk(request, current_user), on the store st
route_screen_bulk(self, requests, current_user, st, seed) ==
    LET batch_id == <<"B","A","T","C","H","-">> \o TODAY \o <<"-">>
                        \o HexUpper(Uuid4(st.uuids + 1), 8)
        Respond(acc) ==
            [raised |-> FALSE, status_code |-> 200, st |-> acc.st,
             data |-> <<[batch_id |-> batch_id,
                         total_requests |-> Len(requests),
                         completed |-> Len(acc.results),
                         failed |-> acc.failed,
                         total_with_matches |-> acc.total_with_matches,
                         high_risk_count |-> acc.high_risk_count,
                         results |-> acc.results]>>]
    IN  Respond(BulkLoop(self, requests, 1, current_user,
                         [results |-> <<>>, failed |-> 0, total_with_matches |-> 0,
                          high_risk_count |-> 0, st |-> [st EXCEPT !.uuids = @ + 1]],
                         seed))

(***************************************************************************)
(* The state machines                                                      *)
(***************************************************************************)
\* the longest corpus passed to screen
MaxEntries == 2
\* the largest max_results a matcher is built with
MaxResultsBound == 2
\* the longest name given to normalize
MaxLen == 4
\* the longest list of queries given to screen_bulk
MaxBatch == 2
\* the longest list of requests posted to the bulk route
MaxRequests == 2
\* the number of uuid4() calls after which the API takes no more requests
MaxUuids == 3
\* the number of steps of the grid of scores given to the scoring functions
ScoreGrid == 200

VARIABLES
    matcher,      \* the ScreeningMatcher: default_threshold, include_aliases, max_results
    hashseed,     \* the hash seed of the process
    pc,           \* "idle", "screened" (screen returned), "repeated" (and returned again)
    call,         \* the arguments of the call of screen
    response,     \* <<the ScreeningResponse>> once screen has returned
    response2,    \* <<the ScreeningResponse>> of the repeated call
    raw_name,     \* the name given to normalize
    keep,         \* the keep_prefixes it is given with
    normal_forms,   \* what normalize returned, and what it returned on that
    bulk_pc,      \* "idle", "gathering" (screen_bulk awaits its tasks), "returned",
                  \* "cancelled" (CancelledError left screen_bulk)
    batch,        \* the running call of screen_bulk: caller, arguments, batch_id
    tasks,        \* per query, <<>> while its worker runs, then <<its response>>
    completed,    \* the indices of the queries in the order their workers finished
    results,      \* what screen_bulk returned
    uuids,        \* the number of uuid4() calls the process has made
    first_run,    \* <<the responses of the first daily run>> once a second one runs
    daily,        \* <<what process_daily_screening returned>>
    WORKFLOW_CASES,  \* the stored workflow cases, by id
    CASE_ACTIONS,    \* the actions of each case, by case id
    NEXT_CASE_ID,
    api_request,  \* the last request of the API: endpoint and body
    api_response, \* <<its response>>
    is_active,    \* is_active of the configuration of each list, by list code
    stdout,       \* the lines the API process has printed
    fn_call,      \* a call of a scoring function: its name and arguments
    fn_result     \* <<what it returned>>

screen_vars == <<pc, call, response, response2>>
norm_vars == <<raw_name, keep, normal_forms>>
fn_vars == <<fn_call, fn_result>>
bulk_vars == <<bulk_pc, batch, tasks, completed, results, first_run, daily>>
route_vars == <<WORKFLOW_CASES, CASE_ACTIONS, NEXT_CASE_ID, api_request, api_response,
                is_active, stdout>>
vars == <<matcher, hashseed, uuids, screen_vars, norm_vars, bulk_vars, route_vars,
          fn_vars>>

\* the sequences of at most n elements of S
RECURSIVE SeqsUpTo(_, _)
SeqsUpTo(S, n) ==
    IF n = 0 THEN {<<>>}
    ELSE LET shorter == SeqsUpTo(S, n - 1)
         IN  shorter \cup {Append(s, x) : s \in {t \in shorter : Len(t) = n - 1}, x \in S}

\* the corpora: sequences of distinct entries
CorpusViews == {c \in SeqsUpTo(EntryPool, MaxEntries) :
                   \A i, j \in 1..Len(c) : i # j => c[i] # c[j]}

\* the thresholds a caller passes: None, 0, 0.5, 0.9 and 1.0
Thresholds == {<<>>, <<0>>} \cup {<<t>> : t \in EffectiveThresholds \ {DEFAULT_MATCH_THRESHOLD}}

\* the reference ids a caller passes, None and "R1"
ReferenceIds == {None, <<"R","1">>}

Matchers == [default_threshold : {DEFAULT_MATCH_THRESHOLD},
             include_aliases : BOOLEAN,
             max_results : 1..MaxResultsBound]

ScreenIdle == pc = "idle" /\ call = <<>> /\ response = <<>> /\ response2 = <<>>
NormIdle == raw_name = <<>> /\ keep = FALSE /\ normal_forms = <<>>
FnIdle == fn_call = <<>> /\ fn_result = <<>>
BulkIdle ==
    /\ bulk_pc = "idle" /\ batch = <<>> /\ tasks = <<>> /\ completed = <<>>
    /\ results = <<>> /\ first_run = <<>> /\ daily = <<>>
RouteIdle ==
    /\ WORKFLOW_CASES = DEMO_CASES
    /\ CASE_ACTIONS = DEMO_ACTIONS
    /\ NEXT_CASE_ID = Len(DEMO_CASES) + 1
    /\ api_request = <<>>
    /\ api_response = <<>>
    /\ is_active = [code \in LIST_CODES |-> TRUE]
    /\ stdout = <<>>

(***************************************************************************)
(* Spec: one call of screen, and the same call made again                  *)
(***************************************************************************)
Init ==
    /\ matcher \in Matchers
    /\ hashseed = "asc"
    /\ uuids = 0
    /\ ScreenIdle /\ NormIdle /\ BulkIdle /\ RouteIdle /\ FnIdle

\* a caller runs screen(candidate, sanction_entries, threshold, reference_id)
Screen(candidate, sanction_entries, threshold, reference_id, seed) ==
    /\ pc = "idle"
    /\ pc' = "screened"
    /\ call' = <<candidate, sanction_entries, threshold, reference_id>>
    /\ hashseed' = seed
    /\ response' = <<screen(matcher, candidate, sanction_entries, threshold,
                            reference_id, Uuid4(1), seed)>>
    /\ UNCHANGED <<matcher, uuids, response2, norm_vars, bulk_vars, route_vars, fn_vars>>

\* the same call is made again, in a process with any hash seed
ScreenAgain(seed) ==
    /\ pc = "screened"
    /\ pc' = "repeated"
    /\ response2' = <<screen(matcher, call[1], call[2], call[3], call[4],
                             Uuid4(2), seed)>>
    /\ UNCHANGED <<matcher, hashseed, uuids, call, response, norm_vars, bulk_vars,
                   route_vars, fn_vars>>

Next ==
    \/ /\ pc = "idle"
       /\ \E c \in CandidatePool, es \in CorpusViews, t \in Thresholds,
             r \in ReferenceIds, seed \in HashSeeds : Screen(c, es, t, r, seed)
    \/ \E seed \in HashSeeds : ScreenAgain(seed)

Spec == Init /\ [][Next]_vars

(***************************************************************************)
(* SpecAlias: screen against entries with aliases                          *)
(***************************************************************************)
\* the corpora: sequences of distinct entries with aliases
AliasCorpora ==
    {c \in SeqsUpTo(AliasPool \cup {e \in EntryPool : e.aliases # <<>>}, MaxEntries) :
        \A i, j \in 1..Len(c) : i # j => c[i] # c[j]}

NextAlias ==
    /\ pc = "idle"
    /\ \E c \in CandidatePool, es \in AliasCorpora, t \in Thresholds,
          seed \in HashSeeds : Screen(c, es, t, None, seed)

SpecAlias == Init /\ [][NextAlias]_vars

(***************************************************************************)
(* SpecNorm: normalize applied to a name, and to its own result            *)
(***************************************************************************)
\* the characters of the names: letters of the prefix "a", another letter,
\* a capital, a space, a hyphen, a special character and an accented letter
NormAlphabet == {"a", "x", "A", " ", "-", ".", "U+00E9"}

InitNorm ==
    /\ matcher = DefaultMatcher
    /\ hashseed = "asc"
    /\ uuids = 0
    /\ ScreenIdle /\ BulkIdle /\ RouteIdle /\ FnIdle
    /\ raw_name \in SeqsUpTo(NormAlphabet, MaxLen)
    /\ keep \in BOOLEAN
    /\ normal_forms = <<>>

\* normalize(raw_name, keep)
Normalize ==
    /\ normal_forms = <<>>
    /\ normal_forms' = <<normalize(raw_name, keep)>>
    /\ UNCHANGED <<matcher, hashseed, uuids, raw_name, keep, screen_vars, bulk_vars,
                   route_vars, fn_vars>>

\* normalize applied to what normalize returned
NormalizeAgain ==
    /\ Len(normal_forms) = 1
    /\ normal_forms' = Append(normal_forms, normalize(normal_forms[1], keep))
    /\ UNCHANGED <<matcher, hashseed, uuids, raw_name, keep, screen_vars, bulk_vars,
                   route_vars, fn_vars>>

NextNorm == Normalize \/ NormalizeAgain

SpecNorm == InitNorm /\ [][NextNorm]_vars

(***************************************************************************)
(* SpecAttributes: EnhancedScorer.score on attributes present, missing     *)
(* and malformed                                                           *)
(***************************************************************************)
\* dates of no accepted format, or of no calendar day
UnparsableDates == {<<"1","5"," ","M","a","r"," ","7","5">>, <<"1","9","7","5","-","0","2","-","3","0">>}
\* dates of birth: none, empty, one day written in two formats, unparsable
DateValues == {None, <<>>, <<"1","9","7","5","-","0","3","-","1","5">>, <<"1","5","/","0","3","/","1","9","7","5">>} \cup UnparsableDates
\* nationalities and identifiers of the query and of the entry
QueryNationalities == {None, <<>>, <<"U","A","E">>}
TargetNationalities == {None, <<>>, <<"e","m","i","r","a","t","e","s">>}
QueryIds == {None, <<>>, <<"a"," ","1">>}
TargetIds == {None, <<>>, <<"A","-","1">>}
\* the overall scores of the names
NameScores == {Hundredths(60), Hundredths(90)}

InitAttributes ==
    /\ matcher = DefaultMatcher
    /\ hashseed = "asc"
    /\ uuids = 0
    /\ ScreenIdle /\ NormIdle /\ BulkIdle /\ RouteIdle
    /\ fn_call \in [fn : {"EnhancedScorer.score"}, score : NameScores,
                     query_dob : DateValues, target_dob : DateValues,
                     query_nationality : QueryNationalities,
                     target_nationality : TargetNationalities,
                     query_id : QueryIds, target_id : TargetIds]
    /\ fn_result = <<>>

\* EnhancedScorer.score from the name score on: the three checks and the
\* boosts
ScoreWithAttributes ==
    /\ fn_result = <<>>
    /\ fn_result' = <<EnhancedScore([overall_score |-> fn_call.score],
                                    check_dob_match(fn_call.query_dob, fn_call.target_dob),
                                    check_nationality_match(fn_call.query_nationality,
                                                            fn_call.target_nationality),
                                    check_id_match(fn_call.query_id, fn_call.target_id))>>
    /\ UNCHANGED <<matcher, hashseed, uuids, fn_call, screen_vars, norm_vars,
                   bulk_vars, route_vars>>

NextAttributes == ScoreWithAttributes

SpecAttributes == InitAttributes /\ [][NextAttributes]_vars

(***************************************************************************)
(* SpecVariations: generate_variations on names of words that have         *)
(* variations                                                              *)
(***************************************************************************)
\* the most words of a name
MaxWords == 7

\* names of words of ARABIC_VARIATIONS
VariationNames ==
    {Join(ws) : ws \in SeqsUpTo({<<"m","o","h","a","m","m","e","d">>, <<"a","l","y">>}, MaxWords) \ {<<>>}}

InitVariations ==
    /\ matcher = DefaultMatcher
    /\ hashseed = "asc"
    /\ uuids = 0
    /\ ScreenIdle /\ NormIdle /\ BulkIdle /\ RouteIdle
    /\ fn_call \in [fn : {"generate_variations"}, name : VariationNames]
    /\ fn_result = <<>>

\* generate_variations(name): the set it builds
GenerateVariations ==
    /\ fn_result = <<>>
    /\ fn_result' = <<generate_variations(fn_call.name)>>
    /\ UNCHANGED <<matcher, hashseed, uuids, fn_call, screen_vars, norm_vars,
                   bulk_vars, route_vars>>

NextVariations == GenerateVariations

SpecVariations == InitVariations /\ [][NextVariations]_vars

(***************************************************************************)
(* SpecPhonetic: calculate_phonetic on two names, and on the same names    *)
(* the other way round                                                     *)
(***************************************************************************)
\* the most tokens of a name
MaxTokens == 2

\* names of tokens, the empty name among them
PhoneticNames == {Join(ws) : ws \in SeqsUpTo({<<"a","l","i">>, <<"o","m","a","r">>}, MaxTokens)}

InitPhonetic ==
    /\ matcher = DefaultMatcher
    /\ hashseed = "asc"
    /\ uuids = 0
    /\ ScreenIdle /\ NormIdle /\ BulkIdle /\ RouteIdle
    /\ fn_call \in [fn : {"calculate_phonetic"}, s1 : PhoneticNames, s2 : PhoneticNames]
    /\ fn_result = <<>>

\* calculate_phonetic(s1, s2)
CalculatePhonetic ==
    /\ fn_result = <<>>
    /\ fn_result' = <<calculate_phonetic(fn_call.s1, fn_call.s2)>>
    /\ UNCHANGED <<matcher, hashseed, uuids, fn_call, screen_vars, norm_vars,
                   bulk_vars, route_vars>>

\* calculate_phonetic(s2, s1)
CalculatePhoneticSwapped ==
    /\ Len(fn_result) = 1
    /\ fn_result' = Append(fn_result, calculate_phonetic(fn_call.s2, fn_call.s1))
    /\ UNCHANGED <<matcher, hashseed, uuids, fn_call, screen_vars, norm_vars,
                   bulk_vars, route_vars>>

NextPhonetic == CalculatePhonetic \/ CalculatePhoneticSwapped

SpecPhonetic == InitPhonetic /\ [][NextPhonetic]_vars

(***************************************************************************)
(* SpecFingerprint: the matching form the pre-filter takes of the          *)
(* normalized name of a query or an entry                                  *)
(***************************************************************************)
InitFingerprint ==
    /\ matcher = DefaultMatcher
    /\ hashseed = "asc"
    /\ uuids = 0
    /\ ScreenIdle /\ NormIdle /\ BulkIdle /\ RouteIdle
    /\ fn_call \in [fn : {"quick_filter"}, name : SeqsUpTo(NormAlphabet, MaxLen)]
    /\ fn_result = <<>>

\* __post_init__ of a query or an entry: normalized_name
PostInit ==
    /\ fn_result = <<>>
    /\ fn_result' = <<normalize(fn_call.name, FALSE)>>
    /\ UNCHANGED <<matcher, hashseed, uuids, fn_call, screen_vars, norm_vars,
                   bulk_vars, route_vars>>

\* quick_filter takes the matching form of the normalized name
MatchingForm ==
    /\ Len(fn_result) = 1
    /\ fn_result' = Append(fn_result, normalize_for_matching(fn_result[1]))
    /\ UNCHANGED <<matcher, hashseed, uuids, fn_call, screen_vars, norm_vars,
                   bulk_vars, route_vars>>

NextFingerprint == PostInit \/ MatchingForm

SpecFingerprint == InitFingerprint /\ [][NextFingerprint]_vars

(***************************************************************************)
(* SpecBulk: screen_bulk with its concurrent workers, and the daily runs   *)
(***************************************************************************)
\* the query of a name
CandidateNamed(nm) == CHOOSE c \in CandidatePool : c.name = nm
\* the entry of an id
Entry(id) == CHOOSE e \in EntryPool : e.id = id

\* the queries of the batches
BulkPool == {CandidateNamed(<<"O","m","a","r"," ","A","l","y">>), CandidateNamed(<<"O","M","A","R","-","A","L","I">>),
             CandidateNamed(<<"M","o","n","a">>)}

\* the corpora of the batches: two listed entries, another one, none
BulkCorpora == {<<Entry(1), Entry(2)>>, <<Entry(5)>>, <<>>}

\* the thresholds and the batch ids of the batches
BulkThresholds == {<<>>, <<Hundredths(90)>>}
BatchIds == {None, <<"B">>}

\* a prior score of a query that matched
PriorScore == Hundredths(80)

\* the previous_results a caller passes: none, maps whose keys are
\* references of the run, and a map keyed by the caller's own ids
PreviousPool == {
    <<>>,
    << <<Reference(Uuid4(1), 0), PriorScore>> >>,
    << <<Reference(Uuid4(1), 0), 0>>, <<Reference(Uuid4(1), 1), PriorScore>> >>,
    << <<<<"c","u","s","t","-","7">>, PriorScore>> >> }

InitBulk ==
    /\ matcher = DefaultMatcher
    /\ hashseed \in HashSeeds
    /\ uuids = 0
    /\ ScreenIdle /\ NormIdle /\ BulkIdle /\ RouteIdle /\ FnIdle

\* screen_bulk up to its await: the batch id, and one task per query
StartBulk(caller, candidates, sanction_entries, threshold, batch_id, previous_results) ==
    /\ batch' = [caller |-> caller,
                 candidates |-> candidates,
                 sanction_entries |-> sanction_entries,
                 threshold |-> threshold,
                 batch_id |-> OrElse(batch_id, Uuid4(uuids + 1)),
                 previous_results |-> previous_results]
    /\ uuids' = IF Falsy(batch_id) THEN uuids + 1 ELSE uuids
    /\ tasks' = [i \in 1..Len(candidates) |-> <<>>]
    /\ completed' = <<>>
    /\ results' = <<>>
    /\ daily' = <<>>
    /\ bulk_pc' = "gathering"

\* a caller awaits screen_bulk(candidates, sanction_entries, threshold, batch_id)
ScreenBulk(candidates, sanction_entries, threshold, batch_id) ==
    /\ bulk_pc = "idle"
    /\ StartBulk("screen_bulk", candidates, sanction_entries, threshold, batch_id, <<>>)
    /\ UNCHANGED <<matcher, hashseed, first_run, screen_vars, norm_vars, route_vars, fn_vars>>

\* a caller awaits process_daily_screening(existing_entities,
\* sanction_entries, previous_results), which awaits screen_bulk
ProcessDaily(existing_entities, sanction_entries, previous_results) ==
    /\ bulk_pc = "idle"
    /\ StartBulk("process_daily_screening", existing_entities, sanction_entries,
                 <<>>, None, previous_results)
    /\ UNCHANGED <<matcher, hashseed, first_run, screen_vars, norm_vars, route_vars, fn_vars>>

\* the map {reference -> highest_score} a caller builds from the responses
Baseline(rs) == [i \in 1..Len(rs) |-> <<rs[i].reference_id, rs[i].highest_score>>]

\* the caller runs process_daily_screening again over the same entities,
\* with the current sanction entries and the baseline of the first run
ProcessDailyAgain(sanction_entries) ==
    /\ bulk_pc = "returned"
    /\ batch.caller = "process_daily_screening"
    /\ first_run = <<>>
    /\ first_run' = <<results>>
    /\ StartBulk("process_daily_screening", batch.candidates, sanction_entries,
                 <<>>, None, Baseline(results))
    /\ UNCHANGED <<matcher, hashseed, screen_vars, norm_vars, route_vars, fn_vars>>

\* the worker of query i runs screen in the executor and finishes; a
\* worker running when the batch is cancelled finishes all the same
Worker(i) ==
    /\ bulk_pc \in {"gathering", "cancelled"}
    /\ tasks[i] = <<>>
    /\ tasks' = [tasks EXCEPT ![i] =
                    <<screen(matcher, batch.candidates[i], batch.sanction_entries,
                             batch.threshold, Reference(batch.batch_id, i - 1),
                             Uuid4(uuids + 1), hashseed)>>]
    /\ completed' = Append(completed, i)
    /\ UNCHANGED <<matcher, hashseed, uuids, bulk_pc, batch, results, first_run, daily,
                   screen_vars, norm_vars, route_vars, fn_vars>>

\* every task is done: gather returns, screen_bulk returns, and
\* process_daily_screening classifies the responses and returns
Gather ==
    /\ bulk_pc = "gathering"
    /\ \A i \in 1..Len(tasks) : tasks[i] # <<>>
    /\ bulk_pc' = "returned"
    /\ results' = GatherResults(tasks, completed)
    /\ daily' = IF batch.caller = "process_daily_screening"
                THEN <<DailyDiff(batch.candidates, results', batch.previous_results)>>
                ELSE <<>>
    /\ UNCHANGED <<matcher, hashseed, uuids, batch, tasks, completed, first_run,
                   screen_vars, norm_vars, route_vars, fn_vars>>

NextBulk ==
    \/ \E cs \in SeqsUpTo(BulkPool, MaxBatch), es \in BulkCorpora,
          t \in BulkThresholds, b \in BatchIds : ScreenBulk(cs, es, t, b)
    \/ \E cs \in SeqsUpTo(BulkPool, MaxBatch), es \in BulkCorpora,
          prev \in PreviousPool : ProcessDaily(cs, es, prev)
    \/ \E es \in BulkCorpora : ProcessDailyAgain(es)
    \/ \E i \in 1..MaxBatch : i <= Len(tasks) /\ Worker(i)
    \/ Gather

SpecBulk == InitBulk /\ [][NextBulk]_vars

(***************************************************************************)
(* SpecCancel: screen_bulk whose caller cancels the task that awaits it,   *)
(* the one cancellation signal screen_bulk can get                         *)
(***************************************************************************)
\* the caller cancels while screen_bulk awaits asyncio.gather(*tasks):
\* gather cancels the tasks and CancelledError leaves screen_bulk, which
\* returns nothing; the workers the executor has not started never run
Cancel ==
    /\ bulk_pc = "gathering"
    /\ bulk_pc' = "cancelled"
    /\ UNCHANGED <<matcher, hashseed, uuids, batch, tasks, completed, results,
                   first_run, daily, screen_vars, norm_vars, route_vars, fn_vars>>

NextCancel ==
    \/ \E cs \in SeqsUpTo(BulkPool, MaxBatch), es \in BulkCorpora,
          t \in BulkThresholds, b \in BatchIds : ScreenBulk(cs, es, t, b)
    \/ \E i \in 1..MaxBatch : i <= Len(tasks) /\ Worker(i)
    \/ Gather
    \/ Cancel

SpecCancel == InitBulk /\ [][NextCancel]_vars

(***************************************************************************)
(* SpecLimit: screen_bulk given batches at and above the largest size of   *)
(* a batch, its workers finishing in the order of the queries              *)
(***************************************************************************)
\* settings.MAX_BULK_SCREENING_SIZE
MAX_BULK_SCREENING_SIZE == 1000

\* a batch of n queries
BatchOf(n) == [i \in 1..n |-> CandidateNamed(<<"M","o","n","a">>)]

\* the worker of the first query that is not screened yet finishes
NextWorker ==
    /\ Len(completed) < Len(tasks)
    /\ Worker(Len(completed) + 1)

NextLimit ==
    \/ \E n \in {MAX_BULK_SCREENING_SIZE, MAX_BULK_SCREENING_SIZE + 1},
          es \in {<<>>, <<Entry(5)>>} : ScreenBulk(BatchOf(n), es, <<>>, <<"B">>)
    \/ NextWorker
    \/ Gather

SpecLimit == InitBulk /\ [][NextLimit]_vars

(***************************************************************************)
(* SpecRoute: the requests of the single and the bulk screening routes     *)
(***************************************************************************)
\* the requests: a listed and an unlisted individual, each screened now or
\* left to the daily batch, a request without its individual data, a company
RequestPool ==
    {SingleScreeningRequest("individual", <<x>>, <<>>, skip, <<>>) :
        x \in IndividualPool, skip \in BOOLEAN}
    \cup {SingleScreeningRequest("individual", <<>>, <<>>, FALSE, <<>>)}
    \cup {SingleScreeningRequest("corporate", <<>>, <<x>>, FALSE, <<Hundredths(50)>>) :
        x \in CorporatePool}

\* the users of the API
CurrentUsers == {[country_code |-> None], [country_code |-> <<"K","W","T">>]}

InitRoute ==
    /\ matcher = DefaultMatcher
    /\ hashseed \in HashSeeds
    /\ uuids = 0
    /\ ScreenIdle /\ NormIdle /\ BulkIdle /\ RouteIdle /\ FnIdle

\* the store of the workflow module and the uuid4() calls made
Store == [cases |-> WORKFLOW_CASES, actions |-> CASE_ACTIONS,
          next_case_id |-> NEXT_CASE_ID, uuids |-> uuids, is_active |-> is_active,
          stdout |-> stdout]

\* the handler returned out: the store and the response after it
Handled(endpoint, body, out) ==
    /\ WORKFLOW_CASES' = out.st.cases
    /\ CASE_ACTIONS' = out.st.actions
    /\ NEXT_CASE_ID' = out.st.next_case_id
    /\ uuids' = out.st.uuids
    /\ is_active' = out.st.is_active
    /\ stdout' = out.st.stdout
    /\ api_request' = [endpoint |-> endpoint, body |-> body]
    /\ api_response' = <<[raised |-> out.raised, status_code |-> out.status_code,
                          data |-> out.data]>>
    /\ UNCHANGED <<matcher, hashseed, screen_vars, norm_vars, bulk_vars, fn_vars>>

\* POST /single: screen_single has no await, the handler is one step of
\* the event loop
RouteScreenSingle(request, current_user) ==
    /\ uuids < MaxUuids
    /\ Handled("single", <<request>>,
               screen_single(matcher, request, current_user, Store, hashseed))

\* POST /bulk: the handler awaits screen_single only, which never suspends,
\* so the whole batch is one step of the event loop
RouteScreenBulk(requests, current_user) ==
    /\ uuids < MaxUuids
    /\ Handled("bulk", requests,
               route_screen_bulk(matcher, requests, current_user, Store, hashseed))

\* PUT /sanctions-lists/{list_code}/toggle: the handler has no await, so
\* it runs between two steps of the event loop
ToggleSanctionsList(list_code, flag) ==
    /\ list_code \in DOMAIN is_active
    /\ is_active' = [is_active EXCEPT ![list_code] = flag]
    /\ UNCHANGED <<matcher, hashseed, uuids, WORKFLOW_CASES, CASE_ACTIONS,
                   NEXT_CASE_ID, api_request, api_response, stdout, screen_vars,
                   norm_vars, bulk_vars, fn_vars>>

NextRoute ==
    \/ \E r \in RequestPool, u \in CurrentUsers : RouteScreenSingle(r, u)
    \/ \E rs \in SeqsUpTo(RequestPool, MaxRequests) \ {<<>>}, u \in CurrentUsers :
          RouteScreenBulk(rs, u)

SpecRoute == InitRoute /\ [][NextRoute]_vars

(***************************************************************************)
(* SpecView: the screening routes served by the event loop that serves    *)
(* the toggle of the lists                                                 *)
(***************************************************************************)
\* the requests that screen in real time: a company, a person of the
\* lists and a request with no person; and their user
ViewRequests ==
    {r \in RequestPool :
        /\ ~r.skip_realtime
        /\ r.individual # <<>> => Len(r.individual[1].full_name) > 4}
ViewUser == [country_code |-> None]

NextView ==
    \/ \E r \in ViewRequests : RouteScreenSingle(r, ViewUser)
    \/ \E code \in LIST_CODES, flag \in BOOLEAN : ToggleSanctionsList(code, flag)
    \/ \E rs \in SeqsUpTo(ViewRequests, MaxRequests) \ {<<>>} :
          RouteScreenBulk(rs, ViewUser)

SpecView == InitRoute /\ [][NextView]_vars

(***************************************************************************)
(* SpecCases: single screenings and the workflow cases they open           *)
(***************************************************************************)
\* the requests for an individual: those of RequestPool and, at the default
\* threshold and at 0.5, the individuals of LadderPool
CaseRequests ==
    {r \in RequestPool : r.entity_type = "individual"}
    \cup {SingleScreeningRequest("individual", <<x>>, <<>>, FALSE, t) :
            x \in LadderPool, t \in {<<>>, <<Hundredths(50)>>}}

\* print(f"Failed to create workflow case: {e}")
FailedToCreate == "Failed to create workflow case"

\* POST /single when create_workflow_case_from_screening raises before it
\* stores the case: the except clause prints the failure and the handler
\* returns the response it had built
RouteScreenSingleCaseError(request, current_user) ==
    /\ uuids < MaxUuids
    /\ LET out == screen_single(matcher, request, current_user, Store, hashseed)
       IN  /\ out.st.next_case_id # NEXT_CASE_ID
           /\ Handled("single", <<request>>,
                      [out EXCEPT !.st = [Store EXCEPT
                                             !.uuids = @ + 1,
                                             !.stdout = Append(@, FailedToCreate)]])

NextCases ==
    \/ \E r \in CaseRequests, u \in CurrentUsers : RouteScreenSingle(r, u)
    \/ \E r \in CaseRequests, u \in CurrentUsers : RouteScreenSingleCaseError(r, u)

SpecCases == InitRoute /\ [][NextCases]_vars

(***************************************************************************)
(* SpecScoring: the risk level of a score, and the score of a name with    *)
(* its attribute matches                                                   *)
(***************************************************************************)
\* the scores of the grid, 0.0 to 1.0
GridScores == {k * (D \div ScoreGrid) : k \in 0..ScoreGrid}

\* dob_match, nationality_match and id_match, in this order
AttributeMatches == BOOLEAN \X BOOLEAN \X BOOLEAN

InitScoring ==
    /\ matcher = DefaultMatcher
    /\ hashseed = "asc"
    /\ uuids = 0
    /\ ScreenIdle /\ NormIdle /\ BulkIdle /\ RouteIdle
    /\ fn_call \in [fn : {"_determine_risk_level", "EnhancedScorer.score"},
                    score : GridScores]
    /\ fn_result = <<>>

\* self._determine_risk_level(highest_score)
DetermineRiskLevel ==
    /\ fn_call.fn = "_determine_risk_level"
    /\ fn_result = <<>>
    /\ fn_result' = <<determine_risk_level(fn_call.score)>>
    /\ UNCHANGED <<matcher, hashseed, uuids, fn_call, screen_vars, norm_vars,
                   bulk_vars, route_vars>>

\* EnhancedScorer.score on a name of the given name score, once for each
\* combination of attribute matches
ScoreAttributes ==
    /\ fn_call.fn = "EnhancedScorer.score"
    /\ fn_result = <<>>
    /\ fn_result' = <<[m \in AttributeMatches |->
                          EnhancedScore([overall_score |-> fn_call.score],
                                        m[1], m[2], m[3])]>>
    /\ UNCHANGED <<matcher, hashseed, uuids, fn_call, screen_vars, norm_vars,
                   bulk_vars, route_vars>>

NextScoring == DetermineRiskLevel \/ ScoreAttributes

SpecScoring == InitScoring /\ [][NextScoring]_vars

(***************************************************************************)
(* Properties of screen                                                    *)
(***************************************************************************)
\* the responses screen has returned so far
Responses == response \o response2

\* the threshold the call used
UsedThreshold == EffectiveThreshold(matcher, call[3])

\* the matches of the call before the sort and the truncation
FoundMatches(seed) == CollectMatches(matcher, call[1], call[2], UsedThreshold, seed)

\* C1 Threshold soundness: no match of a response returned by screen has a
\* combined score below the threshold screen used for the call.
ThresholdSoundness ==
    \A k \in 1..Len(Responses) : \A i \in 1..Len(Responses[k].matches) :
        Score(Responses[k].matches[i]) >= UsedThreshold

\* a call in which the threshold kept one scored entry and rejected another
ThresholdSoundnessWitness ==
    /\ pc = "screened"
    /\ response[1].matches # <<>>
    /\ \E i \in 1..Len(call[2]) :
          /\ PassesQuickFilter(matcher, call[1], call[2][i], UsedThreshold)
          /\ ~AboveThreshold(BestOfEntry(matcher, call[1], call[2][i], hashseed),
                             UsedThreshold)

\* the entries of the corpus whose normalized primary name is the query's
ExactEntries ==
    {i \in 1..Len(call[2]) :
        normalize(call[1].name, FALSE) = normalize(call[2][i].primary_name, FALSE)}

\* C2 Exactness: every entry whose normalized primary name equals the
\* normalized query name is among the matches of the response, with score
\* 1.0 and name_score.exact_match set.
Exactness ==
    pc # "idle" =>
        \A i \in ExactEntries :
            \E k \in 1..Len(response[1].matches) :
                LET m == response[1].matches[k]
                IN  /\ m.sanction_candidate = call[2][i]
                    /\ Score(m) = D
                    /\ m.score_details.name_score.exact_match

\* C3 Sortedness: adjacent matches of a response are in non-increasing
\* order of combined score.
Sortedness ==
    \A k \in 1..Len(Responses) :
        LET ms == Responses[k].matches
        IN  \A i \in 1..(Len(ms) - 1) : Score(ms[i]) >= Score(ms[i + 1])

\* a call whose matches were found in increasing order of score
SortednessWitness ==
    /\ pc = "screened"
    /\ Len(response[1].matches) >= 2
    /\ LET found == FoundMatches(hashseed)
       IN  Score(found[1]) < Score(found[2])

\* C4 Bound: a response holds at most max_results matches.
Bound ==
    \A k \in 1..Len(Responses) :
        Len(Responses[k].matches) <= matcher.max_results

\* a call that found more matches than max_results
BoundWitness ==
    /\ pc = "screened"
    /\ Len(FoundMatches(hashseed)) > matcher.max_results
    /\ Len(response[1].matches) = matcher.max_results

\* C5 Determinism: the same call made twice returns the same matches, in
\* the same order and with the same contents, whatever the iteration order
\* of the variation sets.
Determinism ==
    pc = "repeated" => response[1].matches = response2[1].matches

(***************************************************************************)
(* Properties of normalize                                                 *)
(***************************************************************************)
\* C6 Idempotent normalization: normalize applied to what normalize
\* returned, with the same keep_prefixes, returns it unchanged.
IdempotentNormalization ==
    Len(normal_forms) = 2 => normal_forms[2] = normal_forms[1]

(***************************************************************************)
(* Properties of screen_bulk and process_daily_screening                   *)
(***************************************************************************)
\* C7 Batch order: screen_bulk returns one response per query, response i
\* is the result of screening query i and carries the reference
\* "<batch_id>-<i>", whatever the order the workers finished in.
BatchOrder ==
    bulk_pc = "returned" =>
        /\ Len(results) = Len(batch.candidates)
        /\ \A i \in 1..Len(results) :
              /\ results[i].reference_id = batch.batch_id \o <<"-">> \o Str(i - 1)
              /\ results[i].screened_entity = batch.candidates[i]
              /\ results[i] = screen(matcher, batch.candidates[i],
                                     batch.sanction_entries, batch.threshold,
                                     results[i].reference_id, None, hashseed)

\* a batch of two queries with different results whose second worker
\* finished first
BatchOrderWitness ==
    /\ bulk_pc = "returned"
    /\ completed = <<2, 1>>
    /\ results[1].screened_entity # results[2].screened_entity
    /\ results[1].total_matches # results[2].total_matches

\* the prior score of a response: previous_results at its reference, 0 when
\* absent
Prior(r) == DictGet(batch.previous_results, r.reference_id, 0)

\* the queries of the run that are new, and those that are cleared
NewQueries ==
    {i \in 1..Len(results) : Prior(results[i]) = 0 /\ results[i].highest_score > 0}
ClearedQueries ==
    {i \in 1..Len(results) : Prior(results[i]) > 0 /\ results[i].highest_score = 0}

\* C9 Diff correctness: new_matches holds exactly the queries with prior 0
\* and a current score above 0, cleared_matches exactly those with a prior
\* above 0 and current score 0, every other query is counted unchanged, and
\* the three counts add up to total_screened.
DiffCorrectness ==
    daily # <<>> =>
        LET diff == daily[1]
        IN  /\ Len(diff.new_matches) = Cardinality(NewQueries)
            /\ {diff.new_matches[k].reference_id : k \in 1..Len(diff.new_matches)}
                   = {results[i].reference_id : i \in NewQueries}
            /\ Len(diff.cleared_matches) = Cardinality(ClearedQueries)
            /\ {diff.cleared_matches[k].entity_id : k \in 1..Len(diff.cleared_matches)}
                   = {results[i].reference_id : i \in ClearedQueries}
            /\ diff.unchanged_count
                   = Len(results) - Cardinality(NewQueries) - Cardinality(ClearedQueries)
            /\ diff.total_screened = Len(batch.candidates)
            /\ Len(diff.new_matches) + Len(diff.cleared_matches) + diff.unchanged_count
                   = diff.total_screened

\* a daily run that reported a new match and a cleared one
DiffCorrectnessWitness ==
    /\ daily # <<>>
    /\ Len(daily[1].new_matches) = 1
    /\ Len(daily[1].cleared_matches) = 1

\* C10 Daily diff by reference: in a second daily run over the same
\* queries, given the baseline built from the first run's responses, the
\* prior score consulted for query i is the first run's score of query i,
\* and a query that matched in the first run and matches no longer is
\* among cleared_matches.
BaselineByReference ==
    (bulk_pc = "returned" /\ first_run # <<>>) =>
        \A i \in 1..Len(results) :
            /\ Prior(results[i]) = first_run[1][i].highest_score
            /\ (first_run[1][i].highest_score > 0 /\ results[i].highest_score = 0)
                   => \E k \in 1..Len(daily[1].cleared_matches) :
                          daily[1].cleared_matches[k].entity_id = results[i].reference_id

(***************************************************************************)
(* Properties of the bulk route                                            *)
(***************************************************************************)
\* the request makes screen_single raise
Fails(request) ==
    IF request.entity_type = "individual"
    THEN request.individual = <<>>
    ELSE request.corporate = <<>>

\* the name a request screens
RequestedName(request) ==
    IF request.entity_type = "individual"
    THEN request.individual[1].full_name
    ELSE request.corporate[1].company_name

\* C8 Per-query failure isolation: the bulk response holds one outcome per
\* request, at the request's own position: an error outcome with zero
\* matches for a request that failed, the screening of the request
\* otherwise.
FailureIsolation ==
    (api_response # <<>> /\ api_request.endpoint = "bulk") =>
        LET requests == api_request.body
            outcomes == api_response[1].data[1].results
        IN  /\ ~api_response[1].raised
            /\ Len(outcomes) = Len(requests)
            /\ \A i \in 1..Len(requests) :
                  IF Fails(requests[i])
                  THEN /\ outcomes[i].total_matches = 0
                       /\ "error" \in DOMAIN outcomes[i]
                  ELSE outcomes[i].screened_name = RequestedName(requests[i])

(***************************************************************************)
(* Properties of the screening routes                                      *)
(***************************************************************************)
\* the ScreeningResultResponses the last request returned
Returned ==
    IF api_response = <<>> \/ api_response[1].raised THEN {}
    ELSE IF api_request.endpoint = "single" THEN {api_response[1].data[1]}
    ELSE SeqRange(api_response[1].data[1].results)

\* C11 Overall outcome: a returned screening result is escalated iff it has
\* a match and its highest score is at least 0.90, pending_review iff it has
\* a match and its highest score is below 0.90, released iff it has no
\* match; it is auto_released exactly when it is released.
OverallOutcome ==
    \A r \in Returned :
        /\ r.total_matches = Len(r.matches)
        /\ r.overall_status = "escalated"
               <=> (r.total_matches > 0 /\ r.highest_score >= Hundredths(90))
        /\ r.overall_status = "pending_review"
               <=> (r.total_matches > 0 /\ r.highest_score < Hundredths(90))
        /\ r.overall_status = "released" <=> r.total_matches = 0
        /\ r.auto_released <=> r.overall_status = "released"

OverallOutcomeWitness ==
    /\ api_response # <<>>
    /\ api_request.endpoint = "bulk"
    /\ \A i \in 1..Len(api_request.body) : ~api_request.body[i].skip_realtime
    /\ {r.overall_status : r \in Returned} = {"pending_review", "released"}

\* the requests of the last call that ask to skip the real-time screening
SkippedOnly(request) ==
    /\ request.body # <<>>
    /\ \A i \in 1..Len(request.body) :
           request.body[i].skip_realtime /\ ~Fails(request.body[i])

\* C12 Skipped screening: a request with skip_realtime gets a response with
\* no matches, total_matches 0, highest_score 0, no list screened, status
\* released and auto_released, and the workflow store stays as it was.
SkippedScreening ==
    [][(uuids' # uuids /\ SkippedOnly(api_request')) =>
          /\ ~api_response'[1].raised
          /\ LET outcomes == IF api_request'.endpoint = "single"
                             THEN api_response'[1].data
                             ELSE api_response'[1].data[1].results
             IN  /\ Len(outcomes) = Len(api_request'.body)
                 /\ \A i \in 1..Len(outcomes) :
                        /\ outcomes[i].screened_name = RequestedName(api_request'.body[i])
                        /\ outcomes[i].matches = <<>>
                        /\ outcomes[i].total_matches = 0
                        /\ outcomes[i].highest_score = 0
                        /\ outcomes[i].lists_screened = <<>>
                        /\ outcomes[i].overall_status = "released"
                        /\ outcomes[i].auto_released
          /\ WORKFLOW_CASES' = WORKFLOW_CASES
          /\ CASE_ACTIONS' = CASE_ACTIONS
          /\ NEXT_CASE_ID' = NEXT_CASE_ID]_vars

\* a skipped request for a name that is escalated when it is screened
SkippedScreeningWitness ==
    /\ api_response # <<>>
    /\ api_request.endpoint = "single"
    /\ SkippedOnly(api_request)
    /\ RequestedName(api_request.body[1]) = <<"O","M","A","R","-","A","L","I">>
    /\ api_response[1].data[1].overall_status = "released"

(***************************************************************************)
(* Properties of the scoring functions                                     *)
(***************************************************************************)
\* the risk level the ladder gives a score
Ladder(s) ==
    IF s >= Hundredths(95) THEN "critical"
    ELSE IF s >= Hundredths(85) THEN "high"
    ELSE IF s >= Hundredths(70) THEN "medium"
    ELSE "low"

\* C13 Risk ladder: the risk level of a score s is critical iff s >= 0.95,
\* high iff 0.85 <= s < 0.95, medium iff 0.70 <= s < 0.85, low iff s < 0.70.
RiskLadder ==
    (fn_call # <<>> /\ fn_call.fn = "_determine_risk_level" /\ fn_result # <<>>)
        => fn_result[1] = Ladder(fn_call.score)

\* the score 0.95 itself is critical
RiskLadderWitness ==
    /\ fn_call # <<>>
    /\ fn_call.fn = "_determine_risk_level"
    /\ fn_call.score = Hundredths(95)
    /\ fn_result = <<"critical">>

\* n + 0.15*[dob_match] + 0.05*[nationality_match] + 0.20*[id_match]
BoostedSum(n, m) ==
    n + (IF m[1] THEN Hundredths(15) ELSE 0)
      + (IF m[2] THEN Hundredths(5) ELSE 0)
      + (IF m[3] THEN Hundredths(20) ELSE 0)

\* m2 has every attribute match of m1
AtLeast(m1, m2) == \A k \in 1..3 : m1[k] => m2[k]

\* C14 Combined score: EnhancedScorer.score returns combined_score =
\* min(1.0, n + 0.15*[dob_match] + 0.05*[nationality_match] +
\* 0.20*[id_match]), which lies in [0,1] and does not decrease when one more
\* attribute matches.
CombinedScore ==
    (fn_call # <<>> /\ fn_call.fn = "EnhancedScorer.score" /\ fn_result # <<>>) =>
        /\ \A m \in AttributeMatches :
               /\ fn_result[1][m].combined_score = Min2(D, BoostedSum(fn_call.score, m))
               /\ fn_result[1][m].combined_score \in 0..D
        /\ \A m1, m2 \in AttributeMatches :
               AtLeast(m1, m2) =>
                   fn_result[1][m1].combined_score <= fn_result[1][m2].combined_score

\* a name score of 0.9: the three boosts together are clamped to 1.0, the
\* nationality boost alone is not
CombinedScoreWitness ==
    /\ fn_call # <<>>
    /\ fn_call.fn = "EnhancedScorer.score"
    /\ fn_call.score = Hundredths(90)
    /\ fn_result # <<>>
    /\ fn_result[1][<<TRUE, TRUE, TRUE>>].combined_score = D
    /\ fn_result[1][<<FALSE, TRUE, FALSE>>].combined_score = Hundredths(95)

\* what the screening of a request against the lists active shows of them:
\* the matches and the lists screened
SeenOf(request, active) ==
    IF request.skip_realtime THEN [matches |-> <<>>, lists_screened |-> <<>>]
    ELSE LET result ==
                 screen(matcher,
                        IF request.entity_type = "individual"
                        THEN IndividualCandidate(request.individual[1])
                        ELSE CorporateCandidate(request.corporate[1]),
                        FilteredSanctions(request.entity_type, active),
                        <<OrElseThreshold(request.match_threshold)>>,
                        <<"R">>, None, hashseed)
         IN  [matches |-> [k \in 1..Len(result.matches) |->
                              MatchDetail(result.matches[k])],
              lists_screened |-> result.lists_screened]

NotFails(request) == ~Fails(request)

Cancellation ==
    bulk_pc = "cancelled" =>
        /\ results # <<>>
        /\ results[1].marker = "Cancelled"
        /\ \A i \in 1..Len(tasks) :
               tasks[i] # <<>> => tasks[i][1] \in SeqRange(results[1].partial)

\* C17 Batch limit: of a bulk screening with more than
\* MAX_BULK_SCREENING_SIZE queries no query is screened, and the call does
\* not return responses.
BatchLimit ==
    (batch # <<>> /\ Len(batch.candidates) > MAX_BULK_SCREENING_SIZE) =>
        /\ completed = <<>>
        /\ bulk_pc # "returned"

\* C18 Threshold validation: a call of screen with a threshold below 0.5 or
\* above 1.0 returns no response.
ThresholdValidation ==
    (pc # "idle" /\ call[3] # <<>>
        /\ (call[3][1] < Hundredths(50) \/ call[3][1] > D)) =>
        response = <<>>

\* C19 Tie-break order: of two adjacent matches of a response with the same
\* combined score, the first has the lesser list_code, or the same
\* list_code and the lesser id.
TieBreakOrder ==
    \A k \in 1..Len(Responses) :
        LET ms == Responses[k].matches
        IN  \A i \in 1..(Len(ms) - 1) :
                Score(ms[i]) = Score(ms[i + 1]) =>
                    LET a == ms[i].sanction_candidate
                        b == ms[i + 1].sanction_candidate
                    IN  \/ StrLess(a.list_code, b.list_code)
                        \/ a.list_code = b.list_code /\ a.id < b.id

\* the name a match is to report, given the score of the primary name and
\* the scores of the aliases in their declared order
Reported(m, primary_score, alias_scores) ==
    LET entry == m.sanction_candidate
        greatest == SetMax({alias_scores[i].combined_score : i \in DOMAIN alias_scores})
    IN  IF matcher.include_aliases
           /\ \E i \in DOMAIN alias_scores :
                  alias_scores[i].combined_score > primary_score.combined_score
        THEN LET first == SetMin({i \in DOMAIN alias_scores :
                                     alias_scores[i].combined_score = greatest})
             IN  /\ m.is_alias_match
                 /\ m.matched_name = entry.aliases[first]
                 /\ m.score_details = alias_scores[first]
        ELSE /\ ~m.is_alias_match
             /\ m.matched_name = entry.primary_name
             /\ m.score_details = primary_score

\* C20 Alias selection: a match reports the primary name of its entry with
\* is_alias_match unset, unless aliases are included and some alias scores
\* strictly more than the primary name; then it reports the first declared
\* alias of the greatest combined score, with is_alias_match set; its
\* score_details are those of the name it reports.
AliasSelection ==
    pc # "idle" =>
        \A k \in 1..Len(response[1].matches) :
            LET m == response[1].matches[k]
                entry == m.sanction_candidate
            IN  Reported(m,
                         ScoreAgainst(call[1], entry, entry.primary_name, hashseed),
                         [i \in 1..Len(entry.aliases) |->
                             ScoreAgainst(call[1], entry, entry.aliases[i], hashseed)])

\* a match that reports the second alias of its entry, and a match that
\* reports the first of two aliases of the same score
AliasSelectionWitness ==
    /\ pc # "idle"
    /\ \E k \in 1..Len(response[1].matches) :
           LET m == response[1].matches[k]
           IN  /\ m.is_alias_match
               /\ Len(m.sanction_candidate.aliases) = 2
               /\ m.matched_name = m.sanction_candidate.aliases[2]
    /\ \E k \in 1..Len(response[1].matches) :
           LET m == response[1].matches[k]
               entry == m.sanction_candidate
           IN  /\ m.is_alias_match
               /\ Len(entry.aliases) = 2
               /\ m.matched_name = entry.aliases[1]
               /\ ScoreAgainst(call[1], entry, entry.aliases[2], hashseed).combined_score
                      = Score(m)

\* quick_filter at threshold * 0.7 on the normalized names of the model,
\* each computed once
QuickFilterCache ==
    [k \in {c.normalized_name : c \in AllCandidates}
            \X (UNION {{e.normalized_name} \cup SeqRange(e.normalized_aliases) :
                          e \in AllEntries})
            \X EffectiveThresholds |->
        quick_filter(k[1], k[2], 7 * (k[3] \div 10))] @@ <<>>

\* the pre-filter passes on the normalized primary name of the entry
GateOnPrimary(entry) ==
    QuickFilterCache[<<call[1].normalized_name, entry.normalized_name, UsedThreshold>>]

\* with aliases included, the pre-filter passes on a normalized alias
GateOnAlias(entry) ==
    /\ matcher.include_aliases
    /\ \E i \in 1..Len(entry.normalized_aliases) :
           QuickFilterCache[<<call[1].normalized_name, entry.normalized_aliases[i],
                              UsedThreshold>>]

\* the entry passes the pre-filter and its best score reaches the threshold
Qualifies(entry) ==
    /\ GateOnPrimary(entry) \/ GateOnAlias(entry)
    /\ EntryScoreCache[<<call[1], entry, matcher.include_aliases, hashseed>>]
           .score_details.combined_score >= UsedThreshold

\* the entries of the matches of the first response
MatchedEntries ==
    {response[1].matches[k].sanction_candidate : k \in 1..Len(response[1].matches)}

\* C21 Pre-filter gate: every match is of an entry that passes the
\* pre-filter on its normalized primary name or, with aliases included, on
\* one of its normalized aliases; and when no more than max_results entries
\* pass it and reach the threshold, each of them is among the matches.
PreFilterGate ==
    pc # "idle" =>
        /\ \A entry \in MatchedEntries : GateOnPrimary(entry) \/ GateOnAlias(entry)
        /\ Cardinality({i \in 1..Len(call[2]) : Qualifies(call[2][i])})
               <= matcher.max_results
           => \A i \in 1..Len(call[2]) :
                  Qualifies(call[2][i]) => call[2][i] \in MatchedEntries

\* a match of an entry that passes the pre-filter on an alias only, next to
\* an entry that fails every pre-filter call
PreFilterGateWitness ==
    /\ pc # "idle"
    /\ \E entry \in MatchedEntries : ~GateOnPrimary(entry) /\ GateOnAlias(entry)
    /\ \E i \in 1..Len(call[2]) :
           /\ ~GateOnPrimary(call[2][i]) /\ ~GateOnAlias(call[2][i])
           /\ call[2][i] \notin MatchedEntries

\* C22 Lists consulted: lists_screened of a response holds, each once, the
\* list codes of the entries of the corpus given to screen, and no other.
ListsConsulted ==
    \A k \in 1..Len(Responses) :
        LET lists == Responses[k].lists_screened
        IN  /\ \A code \in SeqRange(lists) :
                   \E i \in 1..Len(call[2]) : call[2][i].list_code = code
            /\ \A i \in 1..Len(call[2]) :
                   \E j \in 1..Len(lists) : lists[j] = call[2][i].list_code
            /\ \A i, j \in 1..Len(lists) : i # j => lists[i] # lists[j]

\* a response of one match for a corpus of two lists, the entry of the
\* other list having failed the pre-filter
ListsConsultedWitness ==
    /\ pc # "idle"
    /\ Len(response[1].matches) = 1
    /\ Len(response[1].lists_screened) = 2
    /\ \E i \in 1..Len(call[2]) :
           /\ ~GateOnPrimary(call[2][i]) /\ ~GateOnAlias(call[2][i])
           /\ call[2][i].list_code # response[1].matches[1].sanction_candidate.list_code

\* C23 Fingerprint stability: the matching form the pre-filter takes of a
\* normalized name is the matching form of the name itself.
FingerprintStability ==
    Len(fn_result) = 2 => fn_result[2] = normalize_for_matching(fn_call.name)

\* absent or empty
Missing(x) == x = None \/ x = <<>>

\* the boost of an attribute whose match flag is set
BoostIf(flag, boost) == IF flag THEN boost ELSE 0

\* C24 No boost without evidence: when an attribute is missing on the query
\* or on the entry, or a date of birth does not parse, score returns with
\* the flag of the attribute unset, and the combined score holds the boosts
\* of the set flags only.
NoBoostWithoutEvidence ==
    (fn_result # <<>> /\ fn_call.fn = "EnhancedScorer.score"
        /\ "query_dob" \in DOMAIN fn_call) =>
        LET r == fn_result[1]
        IN  /\ (Missing(fn_call.query_dob) \/ Missing(fn_call.target_dob)
                   \/ fn_call.query_dob \in UnparsableDates
                   \/ fn_call.target_dob \in UnparsableDates) => ~r.dob_match
            /\ (Missing(fn_call.query_nationality)
                   \/ Missing(fn_call.target_nationality)) => ~r.nationality_match
            /\ (Missing(fn_call.query_id) \/ Missing(fn_call.target_id)) => ~r.id_match
            /\ r.combined_score
                   = Min2(D, fn_call.score + BoostIf(r.dob_match, 15 * (D \div 100))
                                 + BoostIf(r.nationality_match, 5 * (D \div 100))
                                 + BoostIf(r.id_match, 20 * (D \div 100)))

\* a date of birth that does not parse next to an identifier that matches:
\* the score holds the boost of the identifier alone
NoBoostWithoutEvidenceWitness ==
    /\ fn_result # <<>>
    /\ "query_dob" \in DOMAIN fn_call
    /\ fn_call.query_dob \in UnparsableDates
    /\ fn_call.target_dob \in DateValues \ (UnparsableDates \cup {None, <<>>})
    /\ Missing(fn_call.target_nationality)
    /\ fn_result[1].id_match
    /\ fn_result[1].combined_score = fn_call.score + 20 * (D \div 100)

\* C25 Variant cap: generate_variations returns at most 32 variants of a
\* name.
VariantCap ==
    (fn_result # <<>> /\ fn_call.fn = "generate_variations") =>
        Cardinality(fn_result[1]) <= 32

\* the set of the phonetic codes of the tokens of a name
CodeSet(s) == {Metaphone(w) : w \in SeqRange(Split(s))}

\* C26 Phonetic score: calculate_phonetic(a, b) is the number of codes the
\* code sets of a and b share over the size of the larger code set, 0 when
\* a name has no token, and the same for (b, a).
PhoneticScore ==
    (Len(fn_result) = 2 /\ fn_call.fn = "calculate_phonetic") =>
        LET codes_a == CodeSet(fn_call.s1)
            codes_b == CodeSet(fn_call.s2)
        IN  /\ fn_result[1]
                   = IF codes_a = {} \/ codes_b = {} THEN 0
                     ELSE (D \div Max2(Cardinality(codes_a), Cardinality(codes_b)))
                              * Cardinality(codes_a \cap codes_b)
            /\ fn_result[2] = fn_result[1]
\* the best score of the entry over its primary name and, with aliases
\* included, its aliases reaches the threshold
ReachesThreshold(entry) ==
    EntryScoreCache[<<call[1], entry, matcher.include_aliases, hashseed>>]
        .score_details.combined_score >= UsedThreshold

\* C27 Completeness of retrieval: when fewer than max_results entries of the
\* corpus have a best score at or above the threshold, each of them is among
\* the matches: the pre-filter discards no entry that scoring would report.
RetrievalComplete ==
    (pc # "idle"
     /\ Cardinality({i \in 1..Len(call[2]) : ReachesThreshold(call[2][i])})
            < matcher.max_results)
    => \A i \in 1..Len(call[2]) :
           ReachesThreshold(call[2][i]) => call[2][i] \in MatchedEntries

\* C28 Response consistency: total_matches is the number of matches;
\* highest_score is the greatest score among the matches found before
\* truncation, and 0 exactly when there is no match; a match dropped by
\* truncation scores no more than any match kept; and no entry of the corpus
\* is in two matches.
ResponseConsistency ==
    pc # "idle" =>
        LET r == response[1]
            found == FoundMatches(hashseed)
        IN  /\ r.total_matches = Len(r.matches)
            /\ r.highest_score = SetMax({0} \cup {Score(found[i]) : i \in 1..Len(found)})
            /\ r.highest_score = 0 <=> r.matches = <<>>
            /\ \A i \in 1..Len(found) :
                   found[i].sanction_candidate \notin MatchedEntries =>
                       \A j \in 1..Len(r.matches) : Score(found[i]) <= Score(r.matches[j])
            /\ \A i, j \in 1..Len(r.matches) :
                   i # j => r.matches[i].sanction_candidate
                                # r.matches[j].sanction_candidate

\* of two matches found, the second of the greater score, truncation keeps
\* the second
ResponseConsistencyWitness ==
    /\ pc # "idle"
    /\ LET found == FoundMatches(hashseed)
       IN  /\ Len(found) = 2
           /\ Score(found[1]) < Score(found[2])
           /\ response[1].matches = <<found[2]>>

\* C29 Risk and status agree: a returned screening result that is escalated
\* has the risk level high or critical, one of the risk level critical is
\* escalated, and one that is released has the risk level low and the
\* highest score 0.
RiskAndStatus ==
    \A r \in Returned :
        /\ r.overall_status = "escalated" => r.risk_level \in {"high", "critical"}
        /\ r.risk_level = "critical" => r.overall_status = "escalated"
        /\ r.overall_status = "released"
               => (r.risk_level = "low" /\ r.highest_score = 0)

\* a screening escalated at a highest score below 0.95, of the risk level
\* high
RiskAndStatusWitness ==
    /\ api_response # <<>>
    /\ api_request.endpoint = "single"
    /\ ~api_request.body[1].skip_realtime
    /\ \E r \in Returned :
           /\ r.overall_status = "escalated"
           /\ r.risk_level = "high"
           /\ r.highest_score < Hundredths(95)

\* the case priority that corresponds to a risk level
PriorityOf(risk_level) ==
    CASE risk_level = "critical" -> "urgent"
      [] risk_level = "high" -> "high"
      [] risk_level = "medium" -> "medium"
      [] risk_level = "low" -> "low"

\* the ids of the stored cases that carry a reference id
CasesOf(cases, reference_id) ==
    {id \in DOMAIN cases : cases[id].reference_id = reference_id}

\* C30 Workflow case per hit: a single screening that completes and is not
\* skipped leaves the stored cases as they were and, when it has a match,
\* adds exactly one case: of a fresh id, open, carrying the reference id of
\* the response, of the priority that corresponds to its risk level; with no
\* match it adds none. When creating the case fails, no case is added and
\* the response is the one the screening returns otherwise, with status 200.
WorkflowCasePerHit ==
    [][(uuids' # uuids
        /\ api_request'.endpoint = "single"
        /\ ~api_response'[1].raised
        /\ ~api_request'.body[1].skip_realtime) =>
          LET r == api_response'[1].data[1]
              added == DOMAIN WORKFLOW_CASES' \ DOMAIN WORKFLOW_CASES
          IN  /\ \A id \in DOMAIN WORKFLOW_CASES : WORKFLOW_CASES'[id] = WORKFLOW_CASES[id]
              /\ api_response'[1].status_code = 200
              /\ r = screen_single(matcher, api_request'.body[1], ViewUser, Store,
                                   hashseed).data[1]
              /\ IF stdout' # stdout
                 THEN added = {} /\ stdout' = Append(stdout, FailedToCreate)
                 ELSE IF r.total_matches > 0
                 THEN /\ added = {NEXT_CASE_ID}
                      /\ CasesOf(WORKFLOW_CASES', r.reference_id) = added
                      /\ WORKFLOW_CASES'[NEXT_CASE_ID].id = NEXT_CASE_ID
                      /\ WORKFLOW_CASES'[NEXT_CASE_ID].status = "open"
                      /\ WORKFLOW_CASES'[NEXT_CASE_ID].priority = PriorityOf(r.risk_level)
                 ELSE added = {}]_vars

\* two screenings with a match have been made, the first of the priority
\* high at a score below 0.90, the second of the priority low, each with its
\* own case
WorkflowCasePerHitWitness ==
    /\ api_response # <<>>
    /\ Len(WORKFLOW_CASES) = Len(DEMO_CASES) + 2
    /\ LET first == WORKFLOW_CASES[Len(DEMO_CASES) + 1]
           second == WORKFLOW_CASES[Len(DEMO_CASES) + 2]
       IN  /\ first.priority = "high"
           /\ first.highest_match_score < HIGH_RISK_THRESHOLD
           /\ second.priority = "low"
           /\ second.reference_id = api_response[1].data[1].reference_id
           /\ first.reference_id # second.reference_id

====
